---- MODULE Spec2Model ----
(***************************************************************************)
(* Mercuria: the transactional-event pipeline of the wallet, transaction   *)
(* and ledger services.                                                    *)
(*                                                                         *)
(* Money is a decimal string with four fractional digits in the code; the  *)
(* model keeps the request's amount as the string the client sent and      *)
(* parses it (ParseAmount) to an integer number of currency units, which   *)
(* is what math/big computes on for the amounts used here.                 *)
(*                                                                         *)
(* A row id is a database-generated UUID.  A transactions row is           *)
(* identified in the model by its idempotency_key, which the schema keeps  *)
(* unique, and a ledger entry by its position in the table.                *)
(***************************************************************************)
EXTENDS Integers, Sequences, FiniteSets, TLC

(***************************************************************************)
(* Bounds of the model.                                                    *)
(***************************************************************************)
\* client requests in one behaviour; they may all be in flight at once
NumProcs == 2

Procs == 1..NumProcs

(***************************************************************************)
(* Wallet rows.  Every wallet of the model is active and holds USD or EUR; *)
(* "wx" is an id no wallet row has.                                        *)
(***************************************************************************)
Wallets == {"w1", "w2", "w3", "w4"}

NoWallet == "wx"

Currency == [w \in Wallets |-> IF w = "w4" THEN "EUR" ELSE "USD"]

InitBalance == [w \in Wallets |-> CASE w = "w1" -> 4 [] w = "w2" -> 1 [] OTHER -> 0]

NoVal == -1

RECURSIVE SumOver(_, _)
SumOver(f, S) == IF S = {} THEN 0
                 ELSE LET x == CHOOSE y \in S : TRUE IN f[x] + SumOver(f, S \ {x})

SeqToSet(s) == {s[i] : i \in DOMAIN s}

\* ascending wallet-id order (the code compares the id strings)
Rank == [w \in Wallets \cup {NoWallet} |->
            CASE w = "w1" -> 1 [] w = "w2" -> 2 [] w = "w3" -> 3 [] w = "w4" -> 4 [] OTHER -> 5]

(***************************************************************************)
(* Money primitives.                                                       *)
(***************************************************************************)
\* big.Float.SetString on an amount string
ParseAmount(s) ==
    CASE s = "1" -> 1 [] s = "2" -> 2 [] s = "5" -> 5 [] s = "-1" -> 0 - 1 [] OTHER -> 0

\* big.Float.SetString reports whether the string is a number
SetStringOk(s) == s \in {"1", "2", "5", "0", "00", "-1"}

\* the amount string of a stored amount, as the request carried it
RequestAmount(n) == CASE n = 1 -> "1" [] n = 2 -> "2" [] n = 5 -> "5" [] OTHER -> "0"

\* amountRegex ^\d+(\.\d{1,4})?$
amountRegex(s) == s \in {"1", "2", "5", "0", "00"}

\* the literal zero spellings ValidateAmount of the transaction package rejects
ZeroSpellings == {"0", "0.0", "0.00", "0.000", "0.0000"}

ValidateAmount(s) == s # "" /\ amountRegex(s) /\ s \notin ZeroSpellings

hasSufficientBalance(balanceVal, amountVal) == balanceVal >= amountVal

\* an addition that loses its second operand
addAmountsLost(a, b) == a

addAmounts(a, b) == a + b

subtractAmounts(a, b) == a - b

(***************************************************************************)
(* Client requests.                                                        *)
(***************************************************************************)
P2PRequests ==
    { [kind |-> "p2p", from |-> "w1", to |-> "w2", amount |-> "2", key |-> "k1"],
      [kind |-> "p2p", from |-> "w2", to |-> "w1", amount |-> "1", key |-> "k2"],
      [kind |-> "p2p", from |-> "w1", to |-> "w2", amount |-> "5", key |-> "k3"],
      [kind |-> "p2p", from |-> "w1", to |-> "w1", amount |-> "1", key |-> "k4"],
      [kind |-> "p2p", from |-> "w1", to |-> "w4", amount |-> "1", key |-> "k5"] }

\* a client's P2P request whose idempotency key has the form of the key the
\* transaction service derives for the first item of the batch of key bk2
DerivedKeyRequests ==
    { [kind |-> "p2p", from |-> "w1", to |-> "w2", amount |-> "1", key |-> "bk2-0"] }

WalletRequests ==
    { [kind |-> "deposit",  from |-> "w1", to |-> "w1", amount |-> "1", key |-> "d1"],
      [kind |-> "withdraw", from |-> "w2", to |-> "w2", amount |-> "2", key |-> "x1"] }

\* the wallet operations that move money between two wallets: the transfer of
\* a P2P request and the transfer of one item of a batch
TransferKinds == {"p2p", "batch", "transfer", "scheduled"}

\* calls of the wallet service's transfer operation
TransferRequests ==
    { [kind |-> "transfer", from |-> "w1", to |-> "w2", amount |-> "2", key |-> "r1"],
      [kind |-> "transfer", from |-> "w2", to |-> "w1", amount |-> "1", key |-> "r2"] }

\* calls of the transfer operation that no valid P2P request leads to: the
\* same wallet on both sides, a negative, a zero and a malformed amount
EdgeTransferRequests ==
    { [kind |-> "transfer", from |-> "w1", to |-> "w1", amount |-> "1", key |-> "r3"],
      [kind |-> "transfer", from |-> "w1", to |-> "w2", amount |-> "-1", key |-> "r4"],
      [kind |-> "transfer", from |-> "w1", to |-> "w2", amount |-> "0", key |-> "r5"],
      [kind |-> "transfer", from |-> "w1", to |-> "w2", amount |-> "x", key |-> "r6"] }

\* requests for a scheduled transfer; the row's id is its idempotency key
ScheduledRequests ==
    { [kind |-> "scheduled", from |-> "w1", to |-> "w2", amount |-> "2", key |-> "sk1"],
      [kind |-> "scheduled", from |-> "w2", to |-> "w1", amount |-> "5", key |-> "sk2"] }

\* the idempotency key of the execution: fmt.Sprintf("scheduled-%s", txn.ID)
ScheduledKey(id) == "scheduled-" \o id

NoReq == [kind |-> "none", from |-> NoWallet, to |-> NoWallet, amount |-> "", key |-> ""]

ValidateCreateTransactionRequest(r) ==
    /\ r.from # ""
    /\ r.to # ""
    /\ r.from # r.to
    /\ ValidateAmount(r.amount)
    /\ r.key # ""

ValidateDepositRequest(r) == ValidateAmount(r.amount) /\ r.key # ""

(***************************************************************************)
(* Batch requests.                                                         *)
(***************************************************************************)
\* the batch of key bk1 with its second recipient corrected
CorrectedBatch ==
    [from |-> "w1", key |-> "bk1",
     transfers |-> << [to |-> "w2", amount |-> "1"], [to |-> "w3", amount |-> "1"] >>]

BatchRequests ==
    { \* the second recipient does not exist
      [from |-> "w1", key |-> "bk1",
       transfers |-> << [to |-> "w2", amount |-> "1"], [to |-> "wx", amount |-> "1"] >>],
      CorrectedBatch,
      [from |-> "w1", key |-> "bk2",
       transfers |-> << [to |-> "w2", amount |-> "1"], [to |-> "w3", amount |-> "2"] >>],
      \* the total is above the balance of the source
      [from |-> "w2", key |-> "bk3",
       transfers |-> << [to |-> "w1", amount |-> "1"], [to |-> "w3", amount |-> "1"] >>],
      \* an item pays the source itself
      [from |-> "w1", key |-> "bk4",
       transfers |-> << [to |-> "w1", amount |-> "1"] >>] }

NoBatch == [from |-> NoWallet, key |-> "", transfers |-> <<>>]

ValidateCreateBatchTransactionRequest(b) ==
    /\ b.from # ""
    /\ b.key # ""
    /\ Len(b.transfers) > 0
    /\ Len(b.transfers) <= 100
    /\ \A i \in DOMAIN b.transfers :
            /\ b.transfers[i].to # ""
            /\ b.transfers[i].to # b.from
            /\ \A j \in 1..(i - 1) : b.transfers[j].to # b.transfers[i].to
            /\ ValidateAmount(b.transfers[i].amount)

RECURSIVE CalculateBatchTotal(_)
CalculateBatchTotal(transfers) ==
    IF transfers = <<>> THEN 0
    ELSE ParseAmount(Head(transfers).amount) + CalculateBatchTotal(Tail(transfers))

\* fmt.Sprintf("%s-%d", req.IdempotencyKey, i)
SubKey(key, i) == key \o "-" \o ToString(i)

(***************************************************************************)
(* The events of topic transaction.completed and the ledger's consumers.   *)
(***************************************************************************)
\* the replicas of the ledger service consuming the topic
NumConsumers == 2
Consumers == 1..NumConsumers

\* the deliveries in one behaviour
MaxDeliveries == 4

TxnEvents ==
    { [transaction_id |-> "t1", from |-> "w1", to |-> "w2", amount |-> "2"],
      [transaction_id |-> "t2", from |-> "w2", to |-> "w1", amount |-> "1"],
      [transaction_id |-> "t3", from |-> "w1", to |-> "w3", amount |-> "1"],
      \* the payload of batch.completed: a batch id, no transaction or recipient
      [transaction_id |-> "", from |-> "w1", to |-> "", amount |-> ""] }

NoEvent == [transaction_id |-> "", from |-> "", to |-> "", amount |-> ""]

NoBalances == [from |-> 0, to |-> 0]

(***************************************************************************)
(* The analytics service's input: ledger.entry_created payloads as the     *)
(* ledger writes them (event_id is the id of the ledger entry).            *)
(***************************************************************************)
MaxAnalyticsDeliveries == 3

LedgerEvents ==
    { [event_id |-> "e1", transaction_id |-> "t1", wallet_id |-> "w1", entry_type |-> "debit",
       amount |-> "2", from_wallet_id |-> "w1", to_wallet_id |-> "w2"],
      [event_id |-> "e2", transaction_id |-> "t1", wallet_id |-> "w2", entry_type |-> "credit",
       amount |-> "2", from_wallet_id |-> "w1", to_wallet_id |-> "w2"],
      [event_id |-> "e3", transaction_id |-> "t2", wallet_id |-> "w2", entry_type |-> "debit",
       amount |-> "1", from_wallet_id |-> "w2", to_wallet_id |-> "w1"] }

EventIds == {e.event_id : e \in LedgerEvents}

\* getToWalletID: the opposite wallet, read from the metadata
getToWalletID(e) ==
    IF e.entry_type = "debit" THEN e.to_wallet_id
    ELSE IF e.entry_type = "credit" THEN e.from_wallet_id
    ELSE ""

\* ProcessKafkaEvent's conversion of the payload to a LedgerEntryCreatedEvent
LedgerEntryCreatedEvent(e) ==
    [EventID |-> e.event_id, FromWalletID |-> e.wallet_id,
     ToWalletID |-> getToWalletID(e), Amount |-> ParseAmount(e.amount)]

NoLedgerEvent == [EventID |-> "", FromWalletID |-> "", ToWalletID |-> "", Amount |-> 0]

NoMetric == [total_transactions |-> 0, total_volume |-> 0]
NoSnapshot == [total_sent |-> 0, total_received |-> 0, transaction_count |-> 0]
NotApplied == [daily |-> 0, hourly |-> 0, snapshot |-> 0]

(***************************************************************************)
(* The outbox table of one service and its relay.  Row ids are in the      *)
(* order of created_at.                                                    *)
(***************************************************************************)
MaxOutboxRows == 3
RelayLimit == 2
MAX_ATTEMPTS == 5

RowIds == 1..MaxOutboxRows

(***************************************************************************)
(* The callers of the wallet service's GetWallet.                          *)
(***************************************************************************)
NumReaders == 2
Readers == 1..NumReaders

\* the GetWallet calls in one behaviour
MaxReads == 3
NoRow == [status |-> "none", attempts |-> 0]

VARIABLES
    balance,        \* wallets.balance, by wallet id
    walletEvents,   \* wallet_events rows, in insertion order
    walletOutbox,   \* outbox_events rows of the wallet service
    cache,          \* the KV balance cache, by wallet id (NoVal: no entry)
    idem,           \* the idempotency keys present in the KV store
    locks,          \* the wallet-lock keys present in the KV store
    txns,           \* transactions rows
    txnOutbox,      \* outbox_events rows of the transaction service
    pc,             \* where each request handler is
    req,            \* the request each handler serves
    fromBal,        \* the source balance the transaction engine was told (0 when unused)
    held,           \* the wallet locks the handler took, in order
    werr,           \* the error the wallet operation ends with ("" for none)
    moved,          \* the wallet database transactions the handler committed
    retry,          \* the request's transactions row was committed before it came
    result,         \* the answer each handler gave its client
    batchReq,       \* the batch request a handler serves (NoBatch when it serves none)
    item,           \* the 0-based index of the batch item the handler is at
    pending,        \* the rows written in the handler's open database transaction
    batches,        \* committed batch_transactions rows
    ledger,         \* ledger_entries rows, in the order they were committed
    ledgerOutbox,   \* outbox_events rows of the ledger service
    lpc,            \* where each ledger consumer is
    lev,            \* the event each ledger consumer is processing
    lbal,           \* the latest balances the consumer read for the event's wallets
    deliveries,     \* the events delivered to the ledger consumers so far
    relayed         \* the rows of the transaction service's outbox published and consumed so far

walletVars == <<balance, walletEvents, walletOutbox, cache>>
kvVars     == <<idem, locks>>
txnVars    == <<txns, txnOutbox>>
procVars   == <<pc, req, fromBal, held, werr, moved, retry, result>>
batchVars  == <<batchReq, item, pending, batches>>
ledgerVars == <<ledger, ledgerOutbox, lpc, lev, lbal, deliveries, relayed>>

VARIABLES
    dailyMetrics,   \* the daily_metrics row of the day the events fall on
    hourlyMetrics,  \* the hourly_metrics row of the hour the events fall on
    userSnapshots,  \* user_snapshots rows of that day, by user (wallet) id
    eventLog,       \* event_processing_log: the status logged per event_id ("" for no row)
    applied,        \* how often each aggregate was upserted for each event_id
    apc,            \* where each analytics consumer is
    aev,            \* the event each analytics consumer is processing
    adeliveries     \* the events delivered to the analytics consumers so far

analyticsVars == <<dailyMetrics, hourlyMetrics, userSnapshots, eventLog,
                   applied, apc, aev, adeliveries>>
VARIABLES
    outboxRows,     \* outbox_events of one service: status and attempts, by row id
    selected,       \* the rows the relay selected in this cycle and has not handled yet
    rpc             \* where the relay worker is

relayVars == <<outboxRows, selected, rpc>>

VARIABLES
    rowLock,        \* the handler whose database transaction holds the wallet row's lock (0: none)
    readBal         \* the balances the handler's transaction read FOR UPDATE, by wallet

rowVars == <<rowLock, readBal>>

VARIABLES
    due,            \* the keys of the scheduled rows whose scheduled_at has passed
    orphan          \* the dispatcher that ran this execution was killed during it

schedVars == <<due, orphan>>

VARIABLES
    gpc,            \* where each GetWallet call is
    gwallet,        \* the wallet it reads
    gval,           \* the balance it read from the wallets row
    gret,           \* the balance it returned
    reads           \* the GetWallet calls made so far

readerVars == <<gpc, gwallet, gval, gret, reads>>

VARIABLES
    updatedWallet   \* the balance of the wallet a deposit or withdrawal returns (NoVal: none)

replyVars == <<updatedWallet>>
coreVars == <<walletVars, kvVars, txnVars, procVars, batchVars, ledgerVars>>
extVars  == <<analyticsVars, relayVars, rowVars, schedVars, readerVars, replyVars>>
vars == <<coreVars, extVars>>

Init ==
    /\ balance = InitBalance
    /\ walletEvents = <<>>
    /\ walletOutbox = <<>>
    /\ cache = [w \in Wallets |-> NoVal]
    /\ idem = {}
    /\ locks = {}
    /\ txns = {}
    /\ txnOutbox = <<>>
    /\ pc = [p \in Procs |-> "idle"]
    /\ req = [p \in Procs |-> NoReq]
    /\ fromBal = [p \in Procs |-> 0]
    /\ held = [p \in Procs |-> <<>>]
    /\ werr = [p \in Procs |-> ""]
    /\ moved = [p \in Procs |-> 0]
    /\ retry = [p \in Procs |-> FALSE]
    /\ result = [p \in Procs |-> ""]
    /\ batchReq = [p \in Procs |-> NoBatch]
    /\ item = [p \in Procs |-> 0]
    /\ pending = [p \in Procs |-> <<>>]
    /\ batches = {}
    /\ ledger = <<>>
    /\ ledgerOutbox = <<>>
    /\ lpc = [c \in Consumers |-> "idle"]
    /\ lev = [c \in Consumers |-> NoEvent]
    /\ lbal = [c \in Consumers |-> NoBalances]
    /\ deliveries = 0
    /\ relayed = 0
    /\ dailyMetrics = NoMetric
    /\ hourlyMetrics = NoMetric
    /\ userSnapshots = [w \in Wallets |-> NoSnapshot]
    /\ eventLog = [id \in EventIds |-> ""]
    /\ applied = [id \in EventIds |-> NotApplied]
    /\ apc = [c \in Consumers |-> "idle"]
    /\ aev = [c \in Consumers |-> NoLedgerEvent]
    /\ adeliveries = 0
    /\ outboxRows = [i \in RowIds |-> NoRow]
    /\ selected = <<>>
    /\ rpc = "sleep"
    /\ rowLock = [w \in Wallets |-> 0]
    /\ readBal = [p \in Procs |-> [w \in Wallets |-> NoVal]]
    /\ due = {}
    /\ orphan = [p \in Procs |-> FALSE]
    /\ gpc = [g \in Readers |-> "idle"]
    /\ gwallet = [g \in Readers |-> NoWallet]
    /\ gval = [g \in Readers |-> NoVal]
    /\ gret = [g \in Readers |-> NoVal]
    /\ reads = 0
    /\ updatedWallet = [p \in Procs |-> NoVal]

(***************************************************************************)
(* The short-TTL key-value store.                                          *)
(***************************************************************************)
\* CheckIdempotency: is the key present
CheckIdempotency(k) == k \in idem

\* SetIdempotency: the key is present from now on (until its TTL ends)
SetIdempotency(k) == idem' = idem \cup {k}

\* AcquireLock is set-if-absent: it reports whether this call created the key
AcquireLock(w) == w \notin locks

\* InvalidateWalletBalance on each of the wallets ws
InvalidateWalletBalance(ws) ==
    cache' = [w \in Wallets |-> IF w \in ws THEN NoVal ELSE cache[w]]

\* the TTL of an idempotency key (30 minutes) ends
KeyExpire(k) ==
    /\ k \in idem
    /\ idem' = idem \ {k}
    /\ UNCHANGED <<walletVars, locks, txnVars, procVars>>
    /\ UNCHANGED <<batchVars, ledgerVars, extVars>>

\* the TTL of a wallet lock (5 seconds) ends
LockExpire(w) ==
    /\ w \in locks
    /\ locks' = locks \ {w}
    /\ UNCHANGED <<walletVars, idem, txnVars, procVars>>
    /\ UNCHANGED <<batchVars, ledgerVars, extVars>>

(***************************************************************************)
(* How a handler ends.                                                     *)
(***************************************************************************)
Finish(p, answer) ==
    /\ pc' = [pc EXCEPT ![p] = "done"]
    /\ result' = [result EXCEPT ![p] = answer]

\* the wallet operation of p returns err to its caller: the transaction
\* engine (a transfer) or the client (a deposit, a withdrawal)
WalletReturns(p, err) ==
    /\ werr' = [werr EXCEPT ![p] = ""]
    /\ IF req[p].kind = "p2p"
       THEN IF err = ""
            THEN pc' = [pc EXCEPT ![p] = "t_commit"] /\ UNCHANGED result
            ELSE Finish(p, "transfer_failed")
       ELSE IF req[p].kind = "batch"
            THEN /\ pc' = [pc EXCEPT ![p] = IF err = "" THEN "b_record" ELSE "b_fail"]
                 /\ UNCHANGED result
       ELSE IF req[p].kind = "scheduled"
            THEN IF orphan[p]
                 THEN Finish(p, "killed")
                 ELSE /\ pc' = [pc EXCEPT ![p] = IF err = "" THEN "s_commit" ELSE "s_fail"]
                      /\ UNCHANGED result
            ELSE Finish(p, IF err = "" THEN "ok" ELSE err)

\* requests are handed to the handlers in turn: each handler serves one
NextHandler(p) == \A q \in Procs : q < p => pc[q] # "idle"

(***************************************************************************)
(* Wallet service: Transfer, Deposit, Withdraw.                            *)
(***************************************************************************)
\* the wallets whose lock the operation takes, in the order it takes them
walletIDs(r) ==
    IF r.kind \in TransferKinds
    THEN IF Rank[r.from] > Rank[r.to] THEN <<r.to, r.from>> ELSE <<r.from, r.to>>
    ELSE <<r.from>>

\* Service.Transfer up to its idempotency check
TransferCheck(p) ==
    /\ pc[p] = "w_check"
    /\ IF req[p].amount = "" \/ req[p].key = ""
       THEN WalletReturns(p, "required")
       ELSE IF CheckIdempotency(req[p].key)
            THEN WalletReturns(p, "duplicate")
            ELSE /\ pc' = [pc EXCEPT ![p] = "w_lock"]
                 /\ UNCHANGED <<werr, result>>
    /\ UNCHANGED <<walletVars, kvVars, txnVars, req, fromBal, held, moved, retry>>
    /\ UNCHANGED <<batchVars, ledgerVars, extVars>>

\* Service.Deposit / Service.Withdraw up to the idempotency check
DepositStart(p, r) ==
    /\ pc[p] = "idle"
    /\ NextHandler(p)
    /\ r \in WalletRequests
    /\ req' = [req EXCEPT ![p] = r]
    /\ IF ~ValidateDepositRequest(r)
       THEN Finish(p, "validation")
       ELSE IF CheckIdempotency(r.key)
            THEN Finish(p, "duplicate")
            ELSE /\ pc' = [pc EXCEPT ![p] = "w_lock"]
                 /\ UNCHANGED result
    /\ UNCHANGED <<walletVars, kvVars, txnVars, fromBal, held, werr, moved, retry>>
    /\ UNCHANGED <<batchVars, ledgerVars, extVars>>

\* only the lock taken last is released
DeferredReleasesLast(p) == IF held[p] = <<>> THEN {} ELSE {held[p][Len(held[p])]}

\* the locks that the deferred ReleaseLock calls of the operation release
\* when it returns: one call per lock it took
DeferredReleases(p) == SeqToSet(held[p])

\* one AcquireLock of the operation; a lock that is taken fails the operation,
\* and the deferred ReleaseLock calls release the locks it took before
AcquireWalletLock(p) ==
    /\ pc[p] = "w_lock"
    /\ LET w == walletIDs(req[p])[Len(held[p]) + 1] IN
        IF AcquireLock(w)
        THEN /\ locks' = locks \cup {w}
             /\ held' = [held EXCEPT ![p] = Append(@, w)]
             /\ pc' = [pc EXCEPT ![p] =
                    IF Len(held[p]) + 1 = Len(walletIDs(req[p])) THEN "w_tx" ELSE "w_lock"]
             /\ UNCHANGED <<werr, result>>
        ELSE /\ locks' = locks \ DeferredReleases(p)
             /\ held' = [held EXCEPT ![p] = <<>>]
             /\ WalletReturns(p, "locked")
    /\ UNCHANGED <<walletVars, idem, txnVars, req, fromBal, moved, retry>>
    /\ UNCHANGED <<batchVars, ledgerVars, extVars>>

\* CONSTRAINT positive_balance CHECK (balance >= 0)
positive_balance(b) == b >= 0

\* a debit that ignores the balance
DebitableAlways(balanceVal, amountVal) == TRUE

\* a debit goes through when the service's balance check passes and the
\* UPDATE of the new balance satisfies the table's constraint
Debitable(balanceVal, amountVal) ==
    /\ hasSufficientBalance(balanceVal, amountVal)
    /\ positive_balance(subtractAmounts(balanceVal, amountVal))

\* an event that records the balance before the operation as the balance after it
WalletEventUnmoved(w, type, amount, before, after, key) ==
    [wallet |-> w, type |-> type, amount |-> amount,
     before |-> before, after |-> before, key |-> key]

WalletEvent(w, type, amount, before, after, key) ==
    [wallet |-> w, type |-> type, amount |-> amount,
     before |-> before, after |-> after, key |-> key]

BalanceUpdatedOther(w, key) ==
    [aggregate |-> NoWallet, type |-> "wallet.balance_updated", key |-> key]

BalanceUpdated(w, key) ==
    [aggregate |-> w, type |-> "wallet.balance_updated", key |-> key]

\* the database transaction of Service.Transfer, under the row locks of both wallets
TransferTx(p) ==
    LET r == req[p]
        amt == ParseAmount(r.amount)
        ok == /\ r.from \in Wallets
              /\ r.to \in Wallets
              /\ Debitable(balance[r.from], amt)
              /\ SetStringOk(r.amount)
        newFromBalance == subtractAmounts(balance[r.from], amt)
        newToBalance == addAmounts(balance[r.to], amt)
    IN  IF ok /\ positive_balance(newToBalance)
        THEN /\ balance' = [balance EXCEPT ![r.from] = newFromBalance, ![r.to] = newToBalance]
             /\ walletEvents' = walletEvents \o
                    << WalletEvent(r.from, "wallet.transfer_out", amt,
                                   balance[r.from], newFromBalance, r.key),
                       WalletEvent(r.to, "wallet.transfer_in", amt,
                                   balance[r.to], newToBalance, r.key) >>
             /\ walletOutbox' = walletOutbox \o
                    << BalanceUpdated(r.from, r.key), BalanceUpdated(r.to, r.key) >>
             /\ moved' = [moved EXCEPT ![p] = @ + 1]
             /\ pc' = [pc EXCEPT ![p] = "w_set"]
             /\ UNCHANGED <<werr, updatedWallet>>
        ELSE /\ werr' = [werr EXCEPT ![p] =
                    IF r.from \notin Wallets \/ r.to \notin Wallets THEN "not_found"
                    ELSE "insufficient"]
             /\ pc' = [pc EXCEPT ![p] = "w_release"]
             /\ UNCHANGED <<balance, walletEvents, walletOutbox, moved, updatedWallet>>

\* the wallet the operation returns: Deposit reads it with Repository.GetWallet
\* on the connection pool before its transaction commits, which sees the
\* committed row; Withdraw reads it with Repository.GetWalletTx in its
\* transaction, which sees the row it wrote
UpdatedWallet(r, committed, written) ==
    IF r.kind = "deposit" THEN committed ELSE written

\* the database transaction of Service.Deposit or Service.Withdraw, under the row lock
DepositTx(p) ==
    LET r == req[p]
        amt == ParseAmount(r.amount)
        ok == /\ r.from \in Wallets
              /\ (r.kind = "withdraw" => Debitable(balance[r.from], amt))
        newBalance == IF r.kind = "deposit" THEN addAmounts(balance[r.from], amt)
                      ELSE subtractAmounts(balance[r.from], amt)
    IN  IF ok /\ positive_balance(newBalance)
        THEN /\ balance' = [balance EXCEPT ![r.from] = newBalance]
             /\ walletEvents' = Append(walletEvents,
                    WalletEvent(r.from,
                                IF r.kind = "deposit" THEN "wallet.deposit" ELSE "wallet.withdrawal",
                                amt, balance[r.from], newBalance, r.key))
             /\ walletOutbox' = Append(walletOutbox, BalanceUpdated(r.from, r.key))
             /\ updatedWallet' = [updatedWallet EXCEPT ![p] = UpdatedWallet(r, balance[r.from], newBalance)]
             /\ moved' = [moved EXCEPT ![p] = @ + 1]
             /\ pc' = [pc EXCEPT ![p] = "w_set"]
             /\ UNCHANGED werr
        ELSE /\ werr' = [werr EXCEPT ![p] =
                    IF r.from \notin Wallets THEN "not_found" ELSE "insufficient"]
             /\ pc' = [pc EXCEPT ![p] = "w_release"]
             /\ UNCHANGED <<balance, walletEvents, walletOutbox, moved, updatedWallet>>

WalletTx(p) ==
    /\ pc[p] = "w_tx"
    /\ IF req[p].kind \in TransferKinds THEN TransferTx(p) ELSE DepositTx(p)
    /\ UNCHANGED <<cache, kvVars, txnVars, req, fromBal, held, retry, result>>
    /\ UNCHANGED <<batchVars, ledgerVars, analyticsVars, relayVars, rowVars, schedVars, readerVars>>

\* SetIdempotency after the commit
WalletSetKey(p) ==
    /\ pc[p] = "w_set"
    /\ SetIdempotency(req[p].key)
    /\ pc' = [pc EXCEPT ![p] = "w_inval"]
    /\ UNCHANGED <<walletVars, locks, txnVars, req, fromBal, held, werr, moved, retry, result>>
    /\ UNCHANGED <<batchVars, ledgerVars, extVars>>

\* InvalidateWalletBalance of the wallets the operation wrote
WalletInvalidate(p) ==
    /\ pc[p] = "w_inval"
    /\ InvalidateWalletBalance({req[p].from, req[p].to})
    /\ pc' = [pc EXCEPT ![p] = "w_release"]
    /\ UNCHANGED <<balance, walletEvents, walletOutbox, kvVars, txnVars,
                   req, fromBal, held, werr, moved, retry, result>>
    /\ UNCHANGED <<batchVars, ledgerVars, extVars>>

\* the deferred ReleaseLock calls, then the answer to the caller
WalletRelease(p) ==
    /\ pc[p] = "w_release"
    /\ locks' = locks \ DeferredReleases(p)
    /\ held' = [held EXCEPT ![p] = <<>>]
    /\ WalletReturns(p, werr[p])
    /\ UNCHANGED <<walletVars, idem, txnVars, req, fromBal, moved, retry>>
    /\ UNCHANGED <<batchVars, ledgerVars, extVars>>

\* Service.GetWallet: the cached balance if there is one, else the row's, cached
GetWalletBalance(w) == IF cache[w] # NoVal THEN cache[w] ELSE balance[w]

GetWalletCaches(w) ==
    cache' = IF cache[w] # NoVal THEN cache ELSE [cache EXCEPT ![w] = balance[w]]

(***************************************************************************)
(* Transaction service: CreateP2PTransfer.                                 *)
(***************************************************************************)
\* validation and the idempotency check
P2PStart(p, r) ==
    /\ pc[p] = "idle"
    /\ NextHandler(p)
    /\ r \in P2PRequests \cup DerivedKeyRequests
    /\ req' = [req EXCEPT ![p] = r]
    /\ retry' = [retry EXCEPT ![p] = \E t \in txns : t.key = r.key]
    /\ IF ~ValidateCreateTransactionRequest(r)
       THEN Finish(p, "validation")
       ELSE IF CheckIdempotency(r.key)
            THEN Finish(p, "duplicate")
            ELSE /\ pc' = [pc EXCEPT ![p] = "t_from"]
                 /\ UNCHANGED result
    /\ UNCHANGED <<walletVars, kvVars, txnVars, fromBal, held, werr, moved>>
    /\ UNCHANGED <<batchVars, ledgerVars, extVars>>

\* getWalletFromService(FromWalletID)
P2PGetFrom(p) ==
    /\ pc[p] = "t_from"
    /\ IF req[p].from \notin Wallets
       THEN /\ Finish(p, "wallet_error")
            /\ UNCHANGED <<cache, fromBal>>
       ELSE /\ fromBal' = [fromBal EXCEPT ![p] = GetWalletBalance(req[p].from)]
            /\ GetWalletCaches(req[p].from)
            /\ pc' = [pc EXCEPT ![p] = "t_to"]
            /\ UNCHANGED result
    /\ UNCHANGED <<balance, walletEvents, walletOutbox, kvVars, txnVars,
                   req, held, werr, moved, retry>>
    /\ UNCHANGED <<batchVars, ledgerVars, extVars>>

\* getWalletFromService(ToWalletID), the currency check and the balance check
P2PGetTo(p) ==
    /\ pc[p] = "t_to"
    /\ fromBal' = [fromBal EXCEPT ![p] = 0]
    /\ IF req[p].to \notin Wallets
       THEN /\ Finish(p, "wallet_error")
            /\ UNCHANGED cache
       ELSE /\ GetWalletCaches(req[p].to)
            /\ IF Currency[req[p].from] # Currency[req[p].to]
               THEN Finish(p, "currency_mismatch")
               ELSE IF ~hasSufficientBalance(fromBal[p], ParseAmount(req[p].amount))
                    THEN Finish(p, "insufficient")
                    ELSE /\ pc' = [pc EXCEPT ![p] = "w_check"]
                         /\ UNCHANGED result
    /\ UNCHANGED <<balance, walletEvents, walletOutbox, kvVars, txnVars,
                   req, held, werr, moved, retry>>
    /\ UNCHANGED <<batchVars, ledgerVars, extVars>>

\* transactions: idempotency_key UNIQUE, CHECK (amount > 0),
\* CHECK (from_wallet_id != to_wallet_id)
TransactionInsertable(row) ==
    /\ \A t \in txns : t.key # row.key
    /\ row.amount > 0
    /\ row.from # row.to

\* a row that is stored as completed whatever status was asked for
TransactionCompleted(r, type, status) ==
    [key |-> r.key, from |-> r.from, to |-> r.to, amount |-> ParseAmount(r.amount),
     type |-> type, status |-> "completed"]

Transaction(r, type, status) ==
    [key |-> r.key, from |-> r.from, to |-> r.to, amount |-> ParseAmount(r.amount),
     type |-> type, status |-> status]

OutboxEvent(aggregate, type) == [aggregate |-> aggregate, type |-> type]

\* the database transaction of CreateP2PTransfer: the transactions row and
\* its transaction.completed outbox row
P2PCommit(p) ==
    /\ pc[p] = "t_commit"
    /\ LET row == Transaction(req[p], "p2p", "completed") IN
        IF TransactionInsertable(row)
        THEN /\ txns' = txns \cup {row}
             /\ txnOutbox' = Append(txnOutbox, OutboxEvent(row.key, "transaction.completed"))
             /\ pc' = [pc EXCEPT ![p] = "t_set"]
             /\ UNCHANGED result
        ELSE /\ Finish(p, "commit_failed")
             /\ UNCHANGED txnVars
    /\ UNCHANGED <<walletVars, kvVars, req, fromBal, held, werr, moved, retry>>
    /\ UNCHANGED <<batchVars, ledgerVars, extVars>>

\* the database is unavailable when the transaction service commits
P2PCommitUnavailable(p) ==
    /\ pc[p] = "t_commit"
    /\ Finish(p, "commit_failed")
    /\ UNCHANGED <<walletVars, kvVars, txnVars, req, fromBal, held, werr, moved, retry>>
    /\ UNCHANGED <<batchVars, ledgerVars, extVars>>

\* SetIdempotency after the commit
P2PSetKey(p) ==
    /\ pc[p] = "t_set"
    /\ SetIdempotency(req[p].key)
    /\ Finish(p, "ok")
    /\ UNCHANGED <<walletVars, locks, txnVars, req, fromBal, held, werr, moved, retry>>
    /\ UNCHANGED <<batchVars, ledgerVars, extVars>>

\* the transaction service stops between its commit and the key write
Crash(p) ==
    /\ pc[p] = "t_set"
    /\ Finish(p, "crashed")
    /\ UNCHANGED <<walletVars, kvVars, txnVars, req, fromBal, held, werr, moved, retry>>
    /\ UNCHANGED <<batchVars, ledgerVars, extVars>>

(***************************************************************************)
(* Transaction service: CreateBatchTransfer.                               *)
(***************************************************************************)
\* validation and the idempotency check
BatchStart(p, b) ==
    /\ pc[p] = "idle"
    /\ NextHandler(p)
    /\ b \in BatchRequests
    /\ batchReq' = [batchReq EXCEPT ![p] = b]
    /\ IF ~ValidateCreateBatchTransactionRequest(b)
       THEN Finish(p, "validation")
       ELSE IF CheckIdempotency(b.key)
            THEN Finish(p, "duplicate")
            ELSE /\ pc' = [pc EXCEPT ![p] = "b_from"]
                 /\ UNCHANGED result
    /\ UNCHANGED <<walletVars, kvVars, txnVars, req, fromBal, held, werr, moved, retry>>
    /\ UNCHANGED <<item, pending, batches, ledgerVars, extVars>>

\* the total, the source wallet, the balance check for the total, and the
\* batch_transactions row (idempotency_key UNIQUE) in a new database transaction
BatchGetFrom(p) ==
    /\ pc[p] = "b_from"
    /\ LET b == batchReq[p] IN
        IF b.from \notin Wallets
        THEN Finish(p, "wallet_error") /\ UNCHANGED cache
        ELSE /\ GetWalletCaches(b.from)
             /\ IF ~hasSufficientBalance(GetWalletBalance(b.from),
                                         CalculateBatchTotal(b.transfers))
                THEN Finish(p, "insufficient")
                ELSE IF \E row \in batches : row.key = b.key
                     THEN Finish(p, "batch_failed")
                     ELSE /\ pc' = [pc EXCEPT ![p] = "b_item"]
                          /\ UNCHANGED result
    /\ item' = [item EXCEPT ![p] = 0]
    /\ pending' = [pending EXCEPT ![p] = <<>>]
    /\ UNCHANGED <<balance, walletEvents, walletOutbox, kvVars, txnVars,
                   req, fromBal, held, werr, moved, retry>>
    /\ UNCHANGED <<batchReq, batches, ledgerVars, extVars>>

\* one item of the loop up to its wallet transfer: the recipient, the
\* currency check and the request sent to the wallet service
BatchItem(p) ==
    /\ pc[p] = "b_item"
    /\ LET b == batchReq[p]
           transfer == b.transfers[item[p] + 1] IN
        IF transfer.to \notin Wallets
        THEN /\ pc' = [pc EXCEPT ![p] = "b_fail"]
             /\ UNCHANGED <<cache, req>>
        ELSE /\ GetWalletCaches(transfer.to)
             /\ IF Currency[b.from] # Currency[transfer.to]
                THEN /\ pc' = [pc EXCEPT ![p] = "b_fail"]
                     /\ UNCHANGED req
                ELSE /\ req' = [req EXCEPT ![p] =
                            [kind |-> "batch", from |-> b.from, to |-> transfer.to,
                             amount |-> transfer.amount, key |-> SubKey(b.key, item[p])]]
                     /\ pc' = [pc EXCEPT ![p] = "w_check"]
    /\ UNCHANGED <<balance, walletEvents, walletOutbox, kvVars, txnVars,
                   fromBal, held, werr, moved, retry, result>>
    /\ UNCHANGED <<batchVars, ledgerVars, extVars>>

\* the transactions row of the item, in the open database transaction
BatchRecord(p) ==
    /\ pc[p] = "b_record"
    /\ LET row == Transaction(req[p], "batch", "completed") IN
        IF TransactionInsertable(row)
        THEN /\ pending' = [pending EXCEPT ![p] = Append(@, row)]
             /\ item' = [item EXCEPT ![p] = @ + 1]
             /\ pc' = [pc EXCEPT ![p] =
                    IF item[p] + 1 = Len(batchReq[p].transfers) THEN "b_commit" ELSE "b_item"]
        ELSE /\ pc' = [pc EXCEPT ![p] = "b_fail"]
             /\ UNCHANGED <<pending, item>>
    /\ UNCHANGED <<walletVars, kvVars, txnVars, req, fromBal, held, werr, moved, retry, result>>
    /\ UNCHANGED <<batchReq, batches, ledgerVars, extVars>>

\* the status update, the batch.completed outbox row and the commit
BatchCommit(p) ==
    /\ pc[p] = "b_commit"
    /\ LET b == batchReq[p] IN
        IF /\ \A i \in DOMAIN pending[p] : TransactionInsertable(pending[p][i])
           /\ \A row \in batches : row.key # b.key
        THEN /\ txns' = txns \cup SeqToSet(pending[p])
             /\ batches' = batches \cup
                    {[key |-> b.key, from |-> b.from,
                      total |-> CalculateBatchTotal(b.transfers), status |-> "completed"]}
             /\ txnOutbox' = Append(txnOutbox, OutboxEvent(b.key, "batch.completed"))
             /\ pending' = [pending EXCEPT ![p] = <<>>]
             /\ pc' = [pc EXCEPT ![p] = "b_set"]
        ELSE /\ pc' = [pc EXCEPT ![p] = "b_fail"]
             /\ UNCHANGED <<txnVars, batches, pending>>
    /\ UNCHANGED <<walletVars, kvVars, req, fromBal, held, werr, moved, retry, result>>
    /\ UNCHANGED <<batchReq, item, ledgerVars, extVars>>

\* an error inside the database transaction: it rolls back and the handler
\* answers with the error
BatchFail(p) ==
    /\ pc[p] = "b_fail"
    /\ pending' = [pending EXCEPT ![p] = <<>>]
    /\ Finish(p, "batch_failed")
    /\ UNCHANGED <<walletVars, kvVars, txnVars, req, fromBal, held, werr, moved, retry>>
    /\ UNCHANGED <<batchReq, item, batches, ledgerVars, extVars>>

\* SetIdempotency after the commit
BatchSetKey(p) ==
    /\ pc[p] = "b_set"
    /\ SetIdempotency(batchReq[p].key)
    /\ Finish(p, "ok")
    /\ UNCHANGED <<walletVars, locks, txnVars, req, fromBal, held, werr, moved, retry>>
    /\ UNCHANGED <<batchVars, ledgerVars, extVars>>

(***************************************************************************)
(* The wallet and transaction services under client requests, with the     *)
(* key-value store's expiries, a failing commit and a stopping service.    *)
(***************************************************************************)
Next ==
    \/ \E p \in Procs, r \in P2PRequests : P2PStart(p, r)
    \/ \E p \in Procs : P2PGetFrom(p)
    \/ \E p \in Procs : P2PGetTo(p)
    \/ \E p \in Procs : TransferCheck(p)
    \/ \E p \in Procs, r \in WalletRequests : DepositStart(p, r)
    \/ \E p \in Procs : AcquireWalletLock(p)
    \/ \E p \in Procs : WalletTx(p)
    \/ \E p \in Procs : WalletSetKey(p)
    \/ \E p \in Procs : WalletInvalidate(p)
    \/ \E p \in Procs : WalletRelease(p)
    \/ \E p \in Procs : P2PCommit(p)
    \/ \E p \in Procs : P2PCommitUnavailable(p)
    \/ \E p \in Procs : P2PSetKey(p)
    \/ \E p \in Procs : Crash(p)
    \/ \E k \in idem : KeyExpire(k)
    \/ \E w \in locks : LockExpire(w)

Spec == Init /\ [][Next]_vars

InFlight(p) == pc[p] \notin {"idle", "done"}

\* the same services when each request is sent after the one before it was
\* answered: a handler starts when no other handler is in flight
Alone(p) == \A q \in Procs : q # p => ~InFlight(q)

NextSequential ==
    \/ \E p \in Procs, r \in P2PRequests : Alone(p) /\ P2PStart(p, r)
    \/ \E p \in Procs : P2PGetFrom(p)
    \/ \E p \in Procs : P2PGetTo(p)
    \/ \E p \in Procs : TransferCheck(p)
    \/ \E p \in Procs, r \in WalletRequests : Alone(p) /\ DepositStart(p, r)
    \/ \E p \in Procs : AcquireWalletLock(p)
    \/ \E p \in Procs : WalletTx(p)
    \/ \E p \in Procs : WalletSetKey(p)
    \/ \E p \in Procs : WalletInvalidate(p)
    \/ \E p \in Procs : WalletRelease(p)
    \/ \E p \in Procs : P2PCommit(p)
    \/ \E p \in Procs : P2PCommitUnavailable(p)
    \/ \E p \in Procs : P2PSetKey(p)
    \/ \E p \in Procs : Crash(p)
    \/ \E k \in idem : KeyExpire(k)
    \/ \E w \in locks : LockExpire(w)

SpecSequential == Init /\ [][NextSequential]_vars

\* the same services with no expiry, no failing commit and no stop:
\* only the interleaving of the handlers
NextClients ==
    \/ \E p \in Procs, r \in P2PRequests : P2PStart(p, r)
    \/ \E p \in Procs : P2PGetFrom(p)
    \/ \E p \in Procs : P2PGetTo(p)
    \/ \E p \in Procs : TransferCheck(p)
    \/ \E p \in Procs, r \in WalletRequests : DepositStart(p, r)
    \/ \E p \in Procs : AcquireWalletLock(p)
    \/ \E p \in Procs : WalletTx(p)
    \/ \E p \in Procs : WalletSetKey(p)
    \/ \E p \in Procs : WalletInvalidate(p)
    \/ \E p \in Procs : WalletRelease(p)
    \/ \E p \in Procs : P2PCommit(p)
    \/ \E p \in Procs : P2PSetKey(p)

SpecClients == Init /\ [][NextClients]_vars

(***************************************************************************)
(* The transaction service under batch requests, with the wallet service.  *)
(***************************************************************************)
NextBatch ==
    \/ \E p \in Procs, b \in BatchRequests : BatchStart(p, b)
    \/ \E p \in Procs : BatchGetFrom(p)
    \/ \E p \in Procs : BatchItem(p)
    \/ \E p \in Procs : TransferCheck(p)
    \/ \E p \in Procs : AcquireWalletLock(p)
    \/ \E p \in Procs : WalletTx(p)
    \/ \E p \in Procs : WalletSetKey(p)
    \/ \E p \in Procs : WalletInvalidate(p)
    \/ \E p \in Procs : WalletRelease(p)
    \/ \E p \in Procs : BatchRecord(p)
    \/ \E p \in Procs : BatchCommit(p)
    \/ \E p \in Procs : BatchFail(p)
    \/ \E p \in Procs : BatchSetKey(p)

SpecBatch == Init /\ [][NextBatch]_vars

\* the same when the client sends a batch after the one before it was answered
NextBatchSequential ==
    \/ \E p \in Procs, b \in BatchRequests : Alone(p) /\ BatchStart(p, b)
    \/ \E p \in Procs : BatchGetFrom(p)
    \/ \E p \in Procs : BatchItem(p)
    \/ \E p \in Procs : TransferCheck(p)
    \/ \E p \in Procs : AcquireWalletLock(p)
    \/ \E p \in Procs : WalletTx(p)
    \/ \E p \in Procs : WalletSetKey(p)
    \/ \E p \in Procs : WalletInvalidate(p)
    \/ \E p \in Procs : WalletRelease(p)
    \/ \E p \in Procs : BatchRecord(p)
    \/ \E p \in Procs : BatchCommit(p)
    \/ \E p \in Procs : BatchFail(p)
    \/ \E p \in Procs : BatchSetKey(p)

SpecBatchSequential == Init /\ [][NextBatchSequential]_vars

(***************************************************************************)
(* Ledger service: the consumers of topic transaction.completed.           *)
(***************************************************************************)
nonLedgerVars == <<walletVars, kvVars, txnVars, procVars, batchVars, extVars>>

\* the rows of ledger_entries with this transaction_id
GetEntriesByTransaction(id) == {i \in DOMAIN ledger : ledger[i].transaction_id = id}

\* the balance of the newest entry of the wallet, zero when it has none
GetLatestBalance(w) ==
    LET own == {i \in DOMAIN ledger : ledger[i].wallet = w} IN
    IF own = {} THEN 0
    ELSE ledger[CHOOSE i \in own : \A j \in own : j <= i].balance

\* a credit entry that carries the running balance as its amount
CreditEntryOfBalance(e, bal) ==
    [transaction_id |-> e.transaction_id, wallet |-> e.to, type |-> "credit",
     amount |-> bal, balance |-> bal]

DebitEntry(e, bal) ==
    [transaction_id |-> e.transaction_id, wallet |-> e.from, type |-> "debit",
     amount |-> ParseAmount(e.amount), balance |-> bal]

CreditEntry(e, bal) ==
    [transaction_id |-> e.transaction_id, wallet |-> e.to, type |-> "credit",
     amount |-> ParseAmount(e.amount), balance |-> bal]

\* ledger_entries: CHECK (amount > 0); no uniqueness but the primary key
LedgerInsertable(entry) == entry.amount > 0

EntryCreated(entry) ==
    [aggregate |-> entry.transaction_id, type |-> "ledger.entry_created",
     wallet |-> entry.wallet]

\* ProcessTransactionEvent on event e at consumer c: the required fields,
\* then the check of CreateLedgerEntries for entries that already exist
HandleTransactionEvent(c, e) ==
    IF e.transaction_id = "" \/ e.from = "" \/ e.to = "" \/ e.amount = ""
    THEN UNCHANGED <<lpc, lev>>
    ELSE IF GetEntriesByTransaction(e.transaction_id) # {}
         THEN UNCHANGED <<lpc, lev>>
         ELSE /\ lpc' = [lpc EXCEPT ![c] = "l_tx"]
              /\ lev' = [lev EXCEPT ![c] = e]

\* a delivery of event e to consumer c
ProcessTransactionEvent(c, e) ==
    /\ lpc[c] = "idle"
    /\ deliveries < MaxDeliveries
    /\ e \in TxnEvents
    /\ deliveries' = deliveries + 1
    /\ HandleTransactionEvent(c, e)
    /\ UNCHANGED <<ledger, ledgerOutbox, lbal, relayed, nonLedgerVars>>

\* the reads of CreateLedgerEntries: the latest balance of each wallet, by a
\* plain SELECT on the connection pool (no row is locked)
GetLatestBalances(c) ==
    /\ lpc[c] = "l_tx"
    /\ lbal' = [lbal EXCEPT ![c] = [from |-> GetLatestBalance(lev[c].from),
                                    to |-> GetLatestBalance(lev[c].to)]]
    /\ lpc' = [lpc EXCEPT ![c] = "l_write"]
    /\ UNCHANGED <<ledger, ledgerOutbox, lev, deliveries, relayed, nonLedgerVars>>

\* the writes of CreateLedgerEntries and the commit: the debit entry, the
\* credit entry and one outbox row for each
CreateLedgerEntries(c) ==
    /\ lpc[c] = "l_write"
    /\ LET e == lev[c]
           newFromBalance == subtractAmounts(lbal[c].from, ParseAmount(e.amount))
           newToBalance == addAmounts(lbal[c].to, ParseAmount(e.amount))
           debitEntry == DebitEntry(e, newFromBalance)
           creditEntry == CreditEntry(e, newToBalance) IN
        IF LedgerInsertable(debitEntry) /\ LedgerInsertable(creditEntry)
        THEN /\ ledger' = ledger \o <<debitEntry, creditEntry>>
             /\ ledgerOutbox' = ledgerOutbox \o
                    <<EntryCreated(debitEntry), EntryCreated(creditEntry)>>
        ELSE UNCHANGED <<ledger, ledgerOutbox>>
    /\ lpc' = [lpc EXCEPT ![c] = "idle"]
    /\ lev' = [lev EXCEPT ![c] = NoEvent]
    /\ lbal' = [lbal EXCEPT ![c] = NoBalances]
    /\ UNCHANGED <<deliveries, relayed, nonLedgerVars>>

NextLedger ==
    \/ \E c \in Consumers, e \in TxnEvents : ProcessTransactionEvent(c, e)
    \/ \E c \in Consumers : GetLatestBalances(c)
    \/ \E c \in Consumers : CreateLedgerEntries(c)

SpecLedger == Init /\ [][NextLedger]_vars

(***************************************************************************)
(* The analytics service: the consumer of ledger.entry_created.  Every     *)
(* repository call is a statement of its own on the connection pool: the   *)
(* check of the processing log, the upserts and the insert of the log row  *)
(* are not in one database transaction.                                    *)
(***************************************************************************)
nonAnalyticsVars == <<coreVars, relayVars, rowVars, schedVars, readerVars, replyVars>>

\* the additive ON CONFLICT ... DO UPDATE of daily_metrics and hourly_metrics
UpsertMetric(m, ev) ==
    [total_transactions |-> m.total_transactions + 1,
     total_volume |-> m.total_volume + ev.Amount]

\* a delivery of payload e to consumer c
ProcessKafkaEvent(c, e) ==
    /\ apc[c] = "idle"
    /\ adeliveries < MaxAnalyticsDeliveries
    /\ adeliveries' = adeliveries + 1
    /\ aev' = [aev EXCEPT ![c] = LedgerEntryCreatedEvent(e)]
    /\ apc' = [apc EXCEPT ![c] = "a_check"]
    /\ UNCHANGED <<dailyMetrics, hourlyMetrics, userSnapshots, eventLog, applied>>
    /\ UNCHANGED nonAnalyticsVars

\* IsEventProcessed: a row of event_processing_log with this event_id, of
\* whatever status, makes ProcessLedgerEntryCreated return nil
IsEventProcessed(c) ==
    /\ apc[c] = "a_check"
    /\ apc' = [apc EXCEPT ![c] =
                  IF eventLog[aev[c].EventID] # "" THEN "idle" ELSE "a_daily"]
    /\ UNCHANGED <<dailyMetrics, hourlyMetrics, userSnapshots, eventLog,
                   applied, aev, adeliveries>>
    /\ UNCHANGED nonAnalyticsVars

UpsertDailyMetric(c) ==
    /\ apc[c] = "a_daily"
    /\ dailyMetrics' = UpsertMetric(dailyMetrics, aev[c])
    /\ applied' = [applied EXCEPT ![aev[c].EventID].daily = @ + 1]
    /\ apc' = [apc EXCEPT ![c] = "a_hourly"]
    /\ UNCHANGED <<hourlyMetrics, userSnapshots, eventLog, aev, adeliveries>>
    /\ UNCHANGED nonAnalyticsVars

UpsertHourlyMetric(c) ==
    /\ apc[c] = "a_hourly"
    /\ hourlyMetrics' = UpsertMetric(hourlyMetrics, aev[c])
    /\ applied' = [applied EXCEPT ![aev[c].EventID].hourly = @ + 1]
    /\ apc' = [apc EXCEPT ![c] = "a_snapshot"]
    /\ UNCHANGED <<dailyMetrics, userSnapshots, eventLog, aev, adeliveries>>
    /\ UNCHANGED nonAnalyticsVars

\* UpsertUserSnapshot of the sender's row and of the receiver's row
UpsertUserSnapshot(snaps, user, sent, received) ==
    IF user = "" THEN snaps
    ELSE [snaps EXCEPT ![user] =
            [total_sent |-> @.total_sent + sent,
             total_received |-> @.total_received + received,
             transaction_count |-> @.transaction_count + 1]]

updateUserSnapshot(c) ==
    /\ apc[c] = "a_snapshot"
    /\ userSnapshots' =
          UpsertUserSnapshot(
              UpsertUserSnapshot(userSnapshots, aev[c].FromWalletID, aev[c].Amount, 0),
              aev[c].ToWalletID, 0, aev[c].Amount)
    /\ applied' = [applied EXCEPT ![aev[c].EventID].snapshot = @ + 1]
    /\ apc' = [apc EXCEPT ![c] = "a_log"]
    /\ UNCHANGED <<dailyMetrics, hourlyMetrics, eventLog, aev, adeliveries>>
    /\ UNCHANGED nonAnalyticsVars

\* one of the upserts of processEvent returns an error
processEventFails(c) ==
    /\ apc[c] \in {"a_daily", "a_hourly", "a_snapshot"}
    /\ apc' = [apc EXCEPT ![c] = "a_logfail"]
    /\ UNCHANGED <<dailyMetrics, hourlyMetrics, userSnapshots, eventLog,
                   applied, aev, adeliveries>>
    /\ UNCHANGED nonAnalyticsVars

\* logEventProcessing: CreateEventLog is a plain INSERT, refused by
\* unique_event_id when the event already has a row
logEventProcessing(c) ==
    /\ apc[c] \in {"a_log", "a_logfail"}
    /\ eventLog' =
          IF eventLog[aev[c].EventID] # "" THEN eventLog
          ELSE [eventLog EXCEPT ![aev[c].EventID] =
                  IF apc[c] = "a_log" THEN "processed" ELSE "failed"]
    /\ apc' = [apc EXCEPT ![c] = "idle"]
    /\ UNCHANGED <<dailyMetrics, hourlyMetrics, userSnapshots, applied, aev, adeliveries>>
    /\ UNCHANGED nonAnalyticsVars

NextAnalytics ==
    \/ \E c \in Consumers, e \in LedgerEvents : ProcessKafkaEvent(c, e)
    \/ \E c \in Consumers : IsEventProcessed(c)
    \/ \E c \in Consumers : UpsertDailyMetric(c)
    \/ \E c \in Consumers : UpsertHourlyMetric(c)
    \/ \E c \in Consumers : updateUserSnapshot(c)
    \/ \E c \in Consumers : processEventFails(c)
    \/ \E c \in Consumers : logEventProcessing(c)

SpecAnalytics == Init /\ [][NextAnalytics]_vars

(***************************************************************************)
(* The outbox relay: every 5 seconds it selects the pending rows, sends    *)
(* each to the bus and records the outcome.                                *)
(***************************************************************************)
nonRelayVars == <<coreVars, analyticsVars, rowVars, schedVars, readerVars, replyVars>>

\* the first n elements of a sequence
Take(seq, n) == SubSeq(seq, 1, IF Len(seq) < n THEN Len(seq) ELSE n)

\* the ids of set S in ascending order
RECURSIVE Ascending(_)
Ascending(S) ==
    IF S = {} THEN <<>>
    ELSE LET m == CHOOSE x \in S : \A y \in S : x <= y
         IN  <<m>> \o Ascending(S \ {m})

\* SaveEvent inside a producer's database transaction: a new pending row
SaveEvent(i) ==
    /\ outboxRows[i].status = "none"
    /\ \A j \in RowIds : j < i => outboxRows[j].status # "none"
    /\ outboxRows' = [outboxRows EXCEPT ![i] = [status |-> "pending", attempts |-> 0]]
    /\ UNCHANGED <<selected, rpc>>
    /\ UNCHANGED nonRelayVars

\* GetPendingEvents: pending rows below the maximum of attempts, oldest first
GetPendingEventsAll(limit) ==
    Take(Ascending({i \in RowIds : outboxRows[i].status # "none"}), limit)

GetPendingEvents(limit) ==
    Take(Ascending({i \in RowIds : /\ outboxRows[i].status = "pending"
                                   /\ outboxRows[i].attempts < MAX_ATTEMPTS}), limit)

MarkAsPublished(rows, i) == [rows EXCEPT ![i].status = "published"]

MarkAsFailed(rows, i) == [rows EXCEPT ![i].status = "failed"]

IncrementAttemptKept(rows, i) == rows

IncrementAttempt(rows, i) == [rows EXCEPT ![i].attempts = @ + 1]

\* the start of a relay cycle
RelayPoll ==
    /\ rpc = "sleep"
    /\ selected' = GetPendingEvents(RelayLimit)
    /\ rpc' = IF selected' = <<>> THEN "sleep" ELSE "publish"
    /\ UNCHANGED outboxRows
    /\ UNCHANGED nonRelayVars

\* the relay is done with the first selected row
RelayAdvance ==
    /\ selected' = Tail(selected)
    /\ rpc' = IF Tail(selected) = <<>> THEN "sleep" ELSE "publish"

\* the bus accepted the row
RelayPublished ==
    /\ rpc = "publish"
    /\ outboxRows' = MarkAsPublished(outboxRows, Head(selected))
    /\ RelayAdvance
    /\ UNCHANGED nonRelayVars

\* the bus refused the row: one more attempt, and failed at the maximum
RelayPublishFailed ==
    /\ rpc = "publish"
    /\ LET i == Head(selected)
           counted == IncrementAttempt(outboxRows, i)
       IN  outboxRows' = IF counted[i].attempts >= MAX_ATTEMPTS
                         THEN MarkAsFailed(counted, i)
                         ELSE counted
    /\ RelayAdvance
    /\ UNCHANGED nonRelayVars

RelayNext == RelayPoll \/ RelayPublished \/ RelayPublishFailed

NextRelay ==
    \/ \E i \in RowIds : SaveEvent(i)
    \/ RelayPoll
    \/ RelayPublished
    \/ RelayPublishFailed

SpecRelay == Init /\ [][NextRelay]_vars

\* the relay is a goroutine that runs a cycle at every tick until shutdown
SpecRelayFair == SpecRelay /\ WF_vars(RelayNext)

(***************************************************************************)
(* The wallet service with the row locks of its database transactions:     *)
(* SELECT ... FOR UPDATE waits while another transaction holds the row,    *)
(* and the locks are released at commit or rollback.                       *)
(***************************************************************************)
nonRowVars == <<analyticsVars, relayVars, schedVars, readerVars>>

\* Service.Transfer called on the wallet service
TransferStart(p, r) ==
    /\ pc[p] = "idle"
    /\ NextHandler(p)
    /\ r \in TransferRequests \cup EdgeTransferRequests
    /\ req' = [req EXCEPT ![p] = r]
    /\ pc' = [pc EXCEPT ![p] = "w_check"]
    /\ UNCHANGED <<walletVars, kvVars, txnVars, fromBal, held, werr, moved, retry, result>>
    /\ UNCHANGED <<batchVars, ledgerVars, extVars>>

\* the rows the database transaction locks, in the order it locks them
rowOrderAscending(r) == walletIDs(r)

rowOrder(r) == IF r.kind \in TransferKinds THEN <<r.from, r.to>> ELSE <<r.from>>

\* the rows p's transaction has locked and read
RowsOf(p) == {w \in Wallets : readBal[p][w] # NoVal}

\* the row p's transaction locks next (NoWallet when it has them all)
NextRow(p) ==
    LET order == rowOrder(req[p])
        left == {i \in DOMAIN order : order[i] \notin RowsOf(p)}
    IN  IF left = {} THEN NoWallet
        ELSE order[CHOOSE i \in left : \A j \in left : i <= j]

\* FOR UPDATE goes through when no other transaction holds the row
RowFreeAlways(w, p) == TRUE

RowFree(w, p) == rowLock[w] \in {0, p}

\* GetWalletForUpdate: lock the next row and read it
GetWalletForUpdate(p) ==
    /\ pc[p] = "w_tx"
    /\ NextRow(p) # NoWallet
    /\ RowFree(NextRow(p), p)
    /\ rowLock' = [rowLock EXCEPT ![NextRow(p)] = p]
    /\ readBal' = [readBal EXCEPT ![p][NextRow(p)] = balance[NextRow(p)]]
    /\ UNCHANGED <<coreVars, nonRowVars, replyVars>>

\* the rest of the database transaction of Service.Transfer, on the rows it read
TransferRows(p) ==
    LET r == req[p]
        amt == ParseAmount(r.amount)
        newFromBalance == subtractAmounts(readBal[p][r.from], amt)
        newToBalance == addAmounts(readBal[p][r.to], amt)
    IN  IF /\ Debitable(readBal[p][r.from], amt)
           /\ SetStringOk(r.amount)
           /\ positive_balance(newToBalance)
        THEN /\ balance' = [balance EXCEPT ![r.from] = newFromBalance, ![r.to] = newToBalance]
             /\ walletEvents' = walletEvents \o
                    << WalletEvent(r.from, "wallet.transfer_out", amt,
                                   readBal[p][r.from], newFromBalance, r.key),
                       WalletEvent(r.to, "wallet.transfer_in", amt,
                                   readBal[p][r.to], newToBalance, r.key) >>
             /\ walletOutbox' = walletOutbox \o
                    << BalanceUpdated(r.from, r.key), BalanceUpdated(r.to, r.key) >>
             /\ moved' = [moved EXCEPT ![p] = @ + 1]
             /\ pc' = [pc EXCEPT ![p] = "w_set"]
             /\ UNCHANGED <<werr, updatedWallet>>
        ELSE /\ werr' = [werr EXCEPT ![p] = "insufficient"]
             /\ pc' = [pc EXCEPT ![p] = "w_release"]
             /\ UNCHANGED <<balance, walletEvents, walletOutbox, moved, updatedWallet>>

\* the rest of the database transaction of Service.Deposit or Service.Withdraw
DepositRows(p) ==
    LET r == req[p]
        amt == ParseAmount(r.amount)
        newBalance == IF r.kind = "deposit" THEN addAmounts(readBal[p][r.from], amt)
                      ELSE subtractAmounts(readBal[p][r.from], amt)
    IN  IF /\ r.kind = "withdraw" => Debitable(readBal[p][r.from], amt)
           /\ positive_balance(newBalance)
        THEN /\ balance' = [balance EXCEPT ![r.from] = newBalance]
             /\ walletEvents' = Append(walletEvents,
                    WalletEvent(r.from,
                                IF r.kind = "deposit" THEN "wallet.deposit" ELSE "wallet.withdrawal",
                                amt, readBal[p][r.from], newBalance, r.key))
             /\ walletOutbox' = Append(walletOutbox, BalanceUpdated(r.from, r.key))
             /\ updatedWallet' = [updatedWallet EXCEPT ![p] = UpdatedWallet(r, balance[r.from], newBalance)]
             /\ moved' = [moved EXCEPT ![p] = @ + 1]
             /\ pc' = [pc EXCEPT ![p] = "w_set"]
             /\ UNCHANGED werr
        ELSE /\ werr' = [werr EXCEPT ![p] = "insufficient"]
             /\ pc' = [pc EXCEPT ![p] = "w_release"]
             /\ UNCHANGED <<balance, walletEvents, walletOutbox, moved, updatedWallet>>

\* the updates and the end of the database transaction: commit on success,
\* rollback on an error; either way the row locks are released
WalletCommit(p) ==
    /\ pc[p] = "w_tx"
    /\ NextRow(p) = NoWallet
    /\ IF req[p].kind \in TransferKinds THEN TransferRows(p) ELSE DepositRows(p)
    /\ rowLock' = [w \in Wallets |-> IF rowLock[w] = p THEN 0 ELSE rowLock[w]]
    /\ readBal' = [readBal EXCEPT ![p] = [w \in Wallets |-> NoVal]]
    /\ UNCHANGED <<cache, kvVars, txnVars, req, fromBal, held, retry, result>>
    /\ UNCHANGED <<batchVars, ledgerVars, nonRowVars>>

NextRows ==
    \/ \E p \in Procs, r \in TransferRequests : TransferStart(p, r)
    \/ \E p \in Procs, r \in WalletRequests : DepositStart(p, r)
    \/ \E p \in Procs : TransferCheck(p)
    \/ \E p \in Procs : AcquireWalletLock(p)
    \/ \E p \in Procs : GetWalletForUpdate(p)
    \/ \E p \in Procs : WalletCommit(p)
    \/ \E p \in Procs : WalletSetKey(p)
    \/ \E p \in Procs : WalletInvalidate(p)
    \/ \E p \in Procs : WalletRelease(p)
    \/ \E w \in locks : LockExpire(w)

SpecRows == Init /\ [][NextRows]_vars

(***************************************************************************)
(* Transaction service: scheduled transfers and their dispatcher.  Each    *)
(* handler is one execution of a due row by a dispatcher pass.             *)
(***************************************************************************)
nonSchedVars == <<batchVars, ledgerVars, analyticsVars, relayVars, rowVars, readerVars, replyVars>>

\* CreateScheduledTransfer: both wallets are fetched (which caches their
\* balances) and the row is stored with status scheduled
CreateScheduledTransfer(r) ==
    /\ r \in ScheduledRequests
    /\ ~CheckIdempotency(r.key)
    /\ r.from \in Wallets /\ r.to \in Wallets
    /\ Currency[r.from] = Currency[r.to]
    /\ TransactionInsertable(Transaction(r, "scheduled", "scheduled"))
    /\ cache' = [w \in Wallets |->
                    IF w \in {r.from, r.to} /\ cache[w] = NoVal
                    THEN balance[w] ELSE cache[w]]
    /\ txns' = txns \cup {Transaction(r, "scheduled", "scheduled")}
    /\ SetIdempotency(r.key)
    /\ UNCHANGED <<balance, walletEvents, walletOutbox, locks, txnOutbox,
                   procVars, schedVars, nonSchedVars>>

\* the clock passes the scheduled_at of a row
ClockPasses(id) ==
    /\ \E t \in txns : t.key = id /\ t.type = "scheduled"
    /\ id \notin due
    /\ due' = due \cup {id}
    /\ UNCHANGED <<coreVars, orphan, nonSchedVars>>

\* GetScheduledTransactions: WHERE status = 'scheduled' AND scheduled_at <= now
GetScheduledTransactionsAnyStatus == {t \in txns : t.type = "scheduled" /\ t.key \in due}

GetScheduledTransactions == {t \in txns : t.status = "scheduled" /\ t.key \in due}

\* the request a row was created from
RequestOf(id) == CHOOSE r \in ScheduledRequests : r.key = id

\* the id of the row that handler p executes
RowId(p) == (CHOOSE r \in ScheduledRequests : ScheduledKey(r.key) = req[p].key).key

\* the status of the row with this id among rows ("" if there is none)
StatusIn(rows, id) ==
    IF \E t \in rows : t.key = id THEN (CHOOSE t \in rows : t.key = id).status ELSE ""

StatusOf(id) == StatusIn(txns, id)

\* UPDATE transactions SET status = ... WHERE id = ...
UpdateTransactionStatus(id, status) ==
    txns' = {IF t.key = id THEN [t EXCEPT !.status = status] ELSE t : t \in txns}

\* ProcessScheduledTransfers takes up a row that its query returned
ProcessScheduledTransfers(p, t) ==
    /\ pc[p] = "idle"
    /\ NextHandler(p)
    /\ t \in GetScheduledTransactions
    /\ req' = [req EXCEPT ![p] = [RequestOf(t.key) EXCEPT !.key = ScheduledKey(t.key)]]
    /\ retry' = [retry EXCEPT ![p] =
                    \E i \in DOMAIN walletEvents : walletEvents[i].key = ScheduledKey(t.key)]
    /\ pc' = [pc EXCEPT ![p] = "s_wallets"]
    /\ UNCHANGED <<walletVars, kvVars, txnVars, fromBal, held, werr, moved, result>>
    /\ UNCHANGED <<batchVars, ledgerVars, extVars>>

\* executeScheduledTransfer up to the wallet transfer: both wallets are
\* fetched and the source balance is checked
ScheduledGetWallets(p) ==
    /\ pc[p] = "s_wallets"
    /\ cache' = [w \in Wallets |->
                    IF w \in {req[p].from, req[p].to} /\ cache[w] = NoVal
                    THEN balance[w] ELSE cache[w]]
    /\ pc' = [pc EXCEPT ![p] =
                 IF hasSufficientBalance(GetWalletBalance(req[p].from),
                                         ParseAmount(req[p].amount))
                 THEN "w_check" ELSE "s_fail"]
    /\ UNCHANGED <<balance, walletEvents, walletOutbox, kvVars, txnVars,
                   req, fromBal, held, werr, moved, retry, result>>
    /\ UNCHANGED <<batchVars, ledgerVars, extVars>>

\* the database transaction of executeScheduledTransfer: the status update
\* and the transaction.completed outbox row
ScheduledCommit(p) ==
    /\ pc[p] = "s_commit"
    /\ UpdateTransactionStatus(RowId(p), "completed")
    /\ txnOutbox' = Append(txnOutbox, OutboxEvent(RowId(p), "transaction.completed"))
    /\ Finish(p, "ok")
    /\ UNCHANGED <<walletVars, kvVars, req, fromBal, held, werr, moved, retry>>
    /\ UNCHANGED <<batchVars, ledgerVars, extVars>>

\* the database is unavailable when executeScheduledTransfer commits the
\* status update: it returns the error to ProcessScheduledTransfers
ScheduledCommitUnavailable(p) ==
    /\ pc[p] = "s_commit"
    /\ pc' = [pc EXCEPT ![p] = "s_fail"]
    /\ UNCHANGED <<walletVars, kvVars, txnVars, req, fromBal, held, werr, moved, retry, result>>
    /\ UNCHANGED <<batchVars, ledgerVars, extVars>>

\* ProcessScheduledTransfers on an error of the execution
MarkTransactionAsFailed(p) ==
    /\ pc[p] = "s_fail"
    /\ UpdateTransactionStatus(RowId(p), "failed")
    /\ Finish(p, "failed")
    /\ UNCHANGED <<walletVars, kvVars, txnOutbox, req, fromBal, held, werr, moved, retry>>
    /\ UNCHANGED <<batchVars, ledgerVars, extVars>>

\* the transaction service is killed during an execution: what it has asked
\* of the wallet service goes on there, everything else of the execution is lost
DispatcherKill(p) ==
    /\ req[p].kind = "scheduled"
    /\ pc[p] \notin {"idle", "done"}
    /\ ~orphan[p]
    /\ orphan' = [orphan EXCEPT ![p] = TRUE]
    /\ IF pc[p] \in {"s_wallets", "s_commit", "s_fail"}
       THEN Finish(p, "killed")
       ELSE UNCHANGED <<pc, result>>
    /\ UNCHANGED <<walletVars, kvVars, txnVars, req, fromBal, held, werr, moved, retry>>
    /\ UNCHANGED <<due, nonSchedVars>>

\* no other execution of a living dispatcher is under way
DispatcherFree(p) ==
    \A q \in Procs \ {p} : pc[q] \in {"idle", "done"} \/ orphan[q]

\* one transaction service: one dispatcher, which may be killed and restarted
NextDispatcher ==
    \/ \E r \in ScheduledRequests : CreateScheduledTransfer(r)
    \/ \E r \in ScheduledRequests : ClockPasses(r.key)
    \/ \E p \in Procs, t \in txns : DispatcherFree(p) /\ ProcessScheduledTransfers(p, t)
    \/ \E p \in Procs : ScheduledGetWallets(p)
    \/ \E p \in Procs : TransferCheck(p)
    \/ \E p \in Procs : AcquireWalletLock(p)
    \/ \E p \in Procs : WalletTx(p)
    \/ \E p \in Procs : WalletSetKey(p)
    \/ \E p \in Procs : WalletInvalidate(p)
    \/ \E p \in Procs : WalletRelease(p)
    \/ \E p \in Procs : ScheduledCommit(p)
    \/ \E p \in Procs : ScheduledCommitUnavailable(p)
    \/ \E p \in Procs : MarkTransactionAsFailed(p)
    \/ \E p \in Procs : DispatcherKill(p)
    \/ \E k \in idem : KeyExpire(k)
    \/ \E w \in locks : LockExpire(w)

SpecDispatcher == Init /\ [][NextDispatcher]_vars

\* replicas of the transaction service: their dispatchers poll independently
NextReplicas ==
    \/ \E r \in ScheduledRequests : CreateScheduledTransfer(r)
    \/ \E r \in ScheduledRequests : ClockPasses(r.key)
    \/ \E p \in Procs, t \in txns : ProcessScheduledTransfers(p, t)
    \/ \E p \in Procs : ScheduledGetWallets(p)
    \/ \E p \in Procs : TransferCheck(p)
    \/ \E p \in Procs : AcquireWalletLock(p)
    \/ \E p \in Procs : WalletTx(p)
    \/ \E p \in Procs : WalletSetKey(p)
    \/ \E p \in Procs : WalletInvalidate(p)
    \/ \E p \in Procs : WalletRelease(p)
    \/ \E p \in Procs : ScheduledCommit(p)
    \/ \E p \in Procs : MarkTransactionAsFailed(p)

SpecReplicas == Init /\ [][NextReplicas]_vars

(***************************************************************************)
(* The wallet service with a process that may stop during an operation:    *)
(* its deferred calls do not run, and the locks it holds stay in the       *)
(* key-value store until their TTL ends.                                   *)
(***************************************************************************)
WalletCrash(p) ==
    /\ pc[p] \in {"w_lock", "w_tx", "w_set", "w_inval", "w_release"}
    /\ Finish(p, "crashed")
    /\ UNCHANGED <<walletVars, kvVars, txnVars, req, fromBal, held, werr, moved, retry>>
    /\ UNCHANGED <<batchVars, ledgerVars, extVars>>

\* the steps of the wallet service's handlers
WalletSteps ==
    \/ \E p \in Procs, r \in WalletRequests : DepositStart(p, r)
    \/ \E p \in Procs, r \in TransferRequests : TransferStart(p, r)
    \/ \E p \in Procs : TransferCheck(p)
    \/ \E p \in Procs : AcquireWalletLock(p)
    \/ \E p \in Procs : WalletTx(p)
    \/ \E p \in Procs : WalletSetKey(p)
    \/ \E p \in Procs : WalletInvalidate(p)
    \/ \E p \in Procs : WalletRelease(p)

NextLocks ==
    \/ WalletSteps
    \/ \E p \in Procs : WalletCrash(p)
    \/ \E w \in locks : LockExpire(w)

SpecLocks == Init /\ [][NextLocks]_vars

\* no handler that is still running took the lock of wallet w
Abandoned(w) == \A p \in Procs : InFlight(p) => w \notin SeqToSet(held[p])

\* a lock that no running handler holds reaches the end of its TTL
AbandonedExpire == \E w \in locks : Abandoned(w) /\ LockExpire(w)

\* the system does not stop while a running handler has a next step or a
\* lock that no running handler holds is in the key-value store
SpecLocksFair == SpecLocks /\ WF_vars(WalletSteps \/ AbandonedExpire)

(***************************************************************************)
(* The wallet service under deposits, withdrawals and transfers beside     *)
(* GetWallet calls.  GetWallet is three calls in a row: the read of the     *)
(* cache, the read of the wallets row, the write of the cache.             *)
(***************************************************************************)
nonReaderVars == <<coreVars, analyticsVars, relayVars, rowVars, schedVars, replyVars>>

\* GetCachedWalletBalance: on a hit GetWallet returns the cached balance
GetCachedWalletBalance(g, w) ==
    /\ gpc[g] \in {"idle", "done"}
    /\ reads < MaxReads
    /\ reads' = reads + 1
    /\ gwallet' = [gwallet EXCEPT ![g] = w]
    /\ gval' = [gval EXCEPT ![g] = NoVal]
    /\ IF cache[w] # NoVal
       THEN /\ gret' = [gret EXCEPT ![g] = cache[w]]
            /\ gpc' = [gpc EXCEPT ![g] = "done"]
       ELSE /\ gret' = [gret EXCEPT ![g] = NoVal]
            /\ gpc' = [gpc EXCEPT ![g] = "g_db"]
    /\ UNCHANGED nonReaderVars

\* repo.GetWallet on a cache miss
GetWalletRow(g) ==
    /\ gpc[g] = "g_db"
    /\ gval' = [gval EXCEPT ![g] = balance[gwallet[g]]]
    /\ gpc' = [gpc EXCEPT ![g] = "g_cache"]
    /\ UNCHANGED <<gwallet, gret, reads, nonReaderVars>>

\* CacheWalletBalance of the balance that was read, and the return
CacheWalletBalance(g) ==
    /\ gpc[g] = "g_cache"
    /\ cache' = [cache EXCEPT ![gwallet[g]] = gval[g]]
    /\ gret' = [gret EXCEPT ![g] = gval[g]]
    /\ gpc' = [gpc EXCEPT ![g] = "done"]
    /\ UNCHANGED <<balance, walletEvents, walletOutbox, kvVars, txnVars, procVars,
                   batchVars, ledgerVars>>
    /\ UNCHANGED <<analyticsVars, relayVars, rowVars, schedVars, gwallet, gval, reads, replyVars>>

NextCache ==
    \/ \E p \in Procs, r \in WalletRequests : DepositStart(p, r)
    \/ \E p \in Procs, r \in TransferRequests : TransferStart(p, r)
    \/ \E p \in Procs : TransferCheck(p)
    \/ \E p \in Procs : AcquireWalletLock(p)
    \/ \E p \in Procs : WalletTx(p)
    \/ \E p \in Procs : WalletSetKey(p)
    \/ \E p \in Procs : WalletInvalidate(p)
    \/ \E p \in Procs : WalletRelease(p)
    \/ \E g \in Readers, w \in {"w1", "w2"} : GetCachedWalletBalance(g, w)
    \/ \E g \in Readers : GetWalletRow(g)
    \/ \E g \in Readers : CacheWalletBalance(g)

SpecCache == Init /\ [][NextCache]_vars

(***************************************************************************)
(* The pipeline from the transaction service to the ledger: the rows of    *)
(* the transaction service's outbox are published to topic                 *)
(* transaction.completed in order and consumed by the ledger service.      *)
(***************************************************************************)
\* the payload of an outbox row as the transaction service wrote it
Payload(row) ==
    IF row.type = "batch.completed"
    THEN LET b == CHOOSE b \in batches : b.key = row.aggregate IN
         [transaction_id |-> "", from |-> b.from, to |-> "", amount |-> ""]
    ELSE LET t == CHOOSE t \in txns : t.key = row.aggregate IN
         [transaction_id |-> t.key, from |-> t.from, to |-> t.to,
          amount |-> RequestAmount(t.amount)]

\* the next row of the outbox reaches consumer c
ConsumeTransactionCompleted(c) ==
    /\ lpc[c] = "idle"
    /\ relayed < Len(txnOutbox)
    /\ relayed' = relayed + 1
    /\ HandleTransactionEvent(c, Payload(txnOutbox[relayed + 1]))
    /\ UNCHANGED <<ledger, ledgerOutbox, lbal, deliveries, nonLedgerVars>>

NextPipeline ==
    \/ \E p \in Procs, r \in P2PRequests : Alone(p) /\ P2PStart(p, r)
    \/ \E p \in Procs : P2PGetFrom(p)
    \/ \E p \in Procs : P2PGetTo(p)
    \/ \E p \in Procs : P2PCommit(p)
    \/ \E p \in Procs : P2PSetKey(p)
    \/ \E p \in Procs, b \in BatchRequests : Alone(p) /\ BatchStart(p, b)
    \/ \E p \in Procs : BatchGetFrom(p)
    \/ \E p \in Procs : BatchItem(p)
    \/ \E p \in Procs : BatchRecord(p)
    \/ \E p \in Procs : BatchCommit(p)
    \/ \E p \in Procs : BatchFail(p)
    \/ \E p \in Procs : BatchSetKey(p)
    \/ \E p \in Procs : TransferCheck(p)
    \/ \E p \in Procs : AcquireWalletLock(p)
    \/ \E p \in Procs : WalletTx(p)
    \/ \E p \in Procs : WalletSetKey(p)
    \/ \E p \in Procs : WalletInvalidate(p)
    \/ \E p \in Procs : WalletRelease(p)
    \/ \E r \in ScheduledRequests : CreateScheduledTransfer(r)
    \/ \E r \in ScheduledRequests : ClockPasses(r.key)
    \/ \E p \in Procs, t \in txns : Alone(p) /\ ProcessScheduledTransfers(p, t)
    \/ \E p \in Procs : ScheduledGetWallets(p)
    \/ \E p \in Procs : ScheduledCommit(p)
    \/ \E p \in Procs : MarkTransactionAsFailed(p)
    \/ \E c \in Consumers : ConsumeTransactionCompleted(c)
    \/ \E c \in Consumers : GetLatestBalances(c)
    \/ \E c \in Consumers : CreateLedgerEntries(c)

SpecPipeline == Init /\ [][NextPipeline]_vars

(***************************************************************************)
(* Properties of the wallet and transaction services.                      *)
(***************************************************************************)
\* the wallet transfers executed under idempotency key k
Executions(k) ==
    Cardinality({i \in DOMAIN walletEvents :
                    /\ walletEvents[i].type = "wallet.transfer_out"
                    /\ walletEvents[i].key = k})

\* the transactions rows of idempotency key k
Rows(k) == {t \in txns : t.key = k}

\* C1: however many times a P2P request with one idempotency key is sent,
\* there is at most one transactions row with that key and at most one
\* execution of its wallet transfer (one balance delta on each wallet).
C1_SameKeyOnce ==
    \A r \in P2PRequests :
        /\ Cardinality(Rows(r.key)) <= 1
        /\ Executions(r.key) <= 1

C1_Repeated ==
    \E p, q \in Procs :
        /\ p # q
        /\ req[p] = req[q]
        /\ req[p].kind = "p2p"
        /\ pc[p] = "done" /\ pc[q] = "done"
        /\ result[p] = "ok"

\* C2: of the P2P requests with one idempotency key that are in flight at
\* the same time, at most one has its wallet transfer executed.
C2_AtMostOneAdmitted ==
    \A p, q \in Procs :
        (/\ p # q
         /\ InFlight(p) /\ InFlight(q)
         /\ req[p].kind = "p2p" /\ req[q].kind = "p2p"
         /\ req[p].key = req[q].key)
        => ~(moved[p] > 0 /\ moved[q] > 0)

C2_Concurrent ==
    \E p, q \in Procs :
        /\ p # q
        /\ req[p].kind = "p2p"
        /\ req[p].key = req[q].key
        /\ pc[p] = "t_commit"
        /\ pc[q] = "w_lock"

\* what a wallet event adds to the money in the system
External(e) ==
    IF e.type = "wallet.deposit" THEN e.amount
    ELSE IF e.type = "wallet.withdrawal" THEN 0 - e.amount
    ELSE 0

C4_NonNegative == \A w \in Wallets : balance[w] >= 0

C4_DebitRefusedAtZero ==
    /\ \E i \in DOMAIN walletEvents :
            /\ walletEvents[i].type = "wallet.transfer_out"
            /\ walletEvents[i].after = 0
    /\ \E p \in Procs :
            /\ pc[p] = "done"
            /\ req[p].kind = "withdraw"
            /\ result[p] = "insufficient"
            /\ balance[req[p].from] = 0

\* C5: a request that arrives when the transactions row of its idempotency
\* key is already committed executes no wallet transfer, whether or not the
\* key is still in the key-value store.
C5_RetryMovesNothing ==
    \A p \in Procs : retry[p] => moved[p] = 0

\* C7: a handler that answered with an error committed no wallet
\* transaction: no balance change, no outbox row, no key written.
C7_FailureLeavesNothing ==
    \A p \in Procs :
        (pc[p] = "done" /\ result[p] \notin {"ok", "crashed"}) => moved[p] = 0

\* what C8 asks of a step of handler p
InsufficientStep(p) ==
    LET amt == ParseAmount(req[p].amount) IN
    \* the engine's own balance check refuses the request
    /\ (/\ pc[p] = "t_to" /\ pc'[p] # "t_to"
        /\ req[p].to \in Wallets
        /\ Currency[req[p].from] = Currency[req[p].to]
        /\ amt > fromBal[p])
       => (pc'[p] = "done" /\ result'[p] = "insufficient")
    \* the wallet service, under the row locks, refuses it and writes nothing
    /\ (/\ pc[p] = "w_tx" /\ pc'[p] # "w_tx"
        /\ req[p].kind = "p2p"
        /\ req[p].from \in Wallets
        /\ amt > balance[req[p].from])
       => (/\ werr'[p] = "insufficient"
           /\ pc'[p] = "w_release"
           /\ UNCHANGED <<balance, walletEvents, walletOutbox, moved>>)
    \* a refused wallet transfer ends the request
    /\ (/\ pc[p] = "w_release" /\ pc'[p] # "w_release"
        /\ req[p].kind = "p2p"
        /\ werr[p] # "")
       => (pc'[p] = "done" /\ result'[p] = "transfer_failed")
    \* only a handler whose wallet transfer went through writes rows
    /\ (pc[p] = "t_commit" /\ pc'[p] = "t_set") => moved[p] > 0

\* C8: a P2P request whose amount is above the source wallet's balance is
\* refused, by the engine's check or by the wallet service's, and changes
\* no balance and writes no wallet event, transactions row or outbox row.
C8_InsufficientRejected ==
    [][/\ \A p \in Procs : InsufficientStep(p)
       /\ (txns' # txns \/ txnOutbox' # txnOutbox)
            => \E p \in Procs : pc[p] = "t_commit" /\ pc'[p] = "t_set"]_vars

C8_Refused ==
    \E p \in Procs :
        /\ req[p].kind = "p2p"
        /\ pc[p] = "w_release"
        /\ werr[p] = "insufficient"
        /\ moved[p] = 0
        /\ ParseAmount(req[p].amount) > balance[req[p].from]

\* C6: a batch that failed changed no wallet balance: none of its items'
\* wallet transfers was committed.
C6_AllOrNothing ==
    \A p \in Procs :
        (/\ batchReq[p] # NoBatch
         /\ pc[p] = "done"
         /\ result[p] # "ok")
        => moved[p] = 0

(***************************************************************************)
(* Properties of the ledger.                                               *)
(***************************************************************************)
\* the sum of the amounts of the entries of one type of a transaction
EntryTotal(id, type) ==
    LET rows == {i \in GetEntriesByTransaction(id) : ledger[i].type = type} IN
    SumOver([i \in rows |-> ledger[i].amount], rows)

EntryCount(id, type) ==
    Cardinality({i \in GetEntriesByTransaction(id) : ledger[i].type = type})

LedgerTransactions == {ledger[i].transaction_id : i \in DOMAIN ledger}

\* C9: for every transaction_id in the ledger the amounts of its debit
\* entries and the amounts of its credit entries have the same sum.
C9_DoubleEntry ==
    \A id \in LedgerTransactions : EntryTotal(id, "debit") = EntryTotal(id, "credit")

C9_TwoRecorded ==
    /\ EntryCount("t1", "debit") >= 1
    /\ EntryCount("t2", "credit") >= 1
    /\ \E i \in DOMAIN ledger : ledger[i].balance # ledger[i].amount

\* C10: however often and however concurrently the event of a transaction
\* is delivered, the ledger holds one debit and one credit entry for it.
C10_RecordedOnce ==
    \A id \in LedgerTransactions :
        EntryCount(id, "debit") = 1 /\ EntryCount(id, "credit") = 1

C10_Redelivered ==
    /\ deliveries >= 2
    /\ \E c, d \in Consumers : c # d /\ lpc[c] = "l_tx" /\ lev[d] = lev[c]

\* C11: for each event_id the daily, hourly and user-snapshot aggregates
\* take the event in at most once, however often and to however many
\* consumers ledger.entry_created is delivered.
C11_AppliedOnce ==
    \A id \in EventIds :
        applied[id].daily <= 1 /\ applied[id].hourly <= 1 /\ applied[id].snapshot <= 1

\* an event with a processed row in the log has been delivered again
C11_Redelivered ==
    \E c \in Consumers :
        /\ apc[c] = "a_check"
        /\ eventLog[aev[c].EventID] = "processed"

\* the outbox rows of the transaction service of one aggregate and event type
TxnOutboxRows(aggregate, type) ==
    {i \in DOMAIN txnOutbox : txnOutbox[i] = OutboxEvent(aggregate, type)}

\* C12: every committed mutation with a defined event has exactly one outbox
\* row and every outbox row has its committed mutation: each wallet event
\* (one balance change) pairs with one wallet.balance_updated row of the same
\* wallet and key, each completed batch with one batch.completed row, each
\* completed P2P transactions row with one transaction.completed row.
C12_OutboxComplete ==
    /\ Len(walletOutbox) = Len(walletEvents)
    /\ \A i \in DOMAIN walletEvents :
          /\ walletOutbox[i].type = "wallet.balance_updated"
          /\ walletOutbox[i].aggregate = walletEvents[i].wallet
          /\ walletOutbox[i].key = walletEvents[i].key
    /\ \A b \in batches : Cardinality(TxnOutboxRows(b.key, "batch.completed")) = 1
    /\ \A t \in txns :
          t.type = "p2p" => Cardinality(TxnOutboxRows(t.key, "transaction.completed")) = 1
    /\ \A i \in DOMAIN txnOutbox :
          \/ /\ txnOutbox[i].type = "batch.completed"
             /\ \E b \in batches : b.key = txnOutbox[i].aggregate /\ b.status = "completed"
          \/ /\ txnOutbox[i].type = "transaction.completed"
             /\ \E t \in txns : t.key = txnOutbox[i].aggregate /\ t.status = "completed"

\* a batch of two transfers has committed: four balance changes, one batch row
C12_BatchCommitted ==
    /\ batches # {}
    /\ Len(walletEvents) >= 4
    /\ Len(txnOutbox) >= 1

\* C13: every pending outbox row eventually leaves pending: it becomes
\* published, or failed once its attempts reach MAX_ATTEMPTS.
C13_LeavesPending ==
    \A i \in RowIds :
        (outboxRows[i].status = "pending") ~>
            \/ outboxRows[i].status = "published"
            \/ outboxRows[i].status = "failed" /\ outboxRows[i].attempts >= MAX_ATTEMPTS

\* one row was published and another failed after MAX_ATTEMPTS attempts
C13_PublishedAndFailed ==
    \E i, j \in RowIds :
        /\ outboxRows[i].status = "published"
        /\ outboxRows[j].status = "failed"
        /\ outboxRows[j].attempts = MAX_ATTEMPTS

\* the steps an outbox row may take
RowStep(a, b) ==
    \/ b = a
    \/ a.status = "none" /\ b = [status |-> "pending", attempts |-> 0]
    \/ /\ a.status = "pending"
       /\ \/ b = [status |-> "published", attempts |-> a.attempts]
          \/ b = [status |-> "pending", attempts |-> a.attempts + 1]
          \/ b = [status |-> "failed", attempts |-> a.attempts + 1]
                /\ a.attempts + 1 >= MAX_ATTEMPTS

\* C14: an outbox row only moves pending -> published, or pending -> pending
\* with attempts one higher, ending in failed; published and failed are
\* terminal, attempts never decreases, and the relay never holds a selected
\* row that is published or failed.
C14_OutboxSteps ==
    [][ /\ \A i \in RowIds : RowStep(outboxRows[i], outboxRows'[i])
        /\ \A k \in DOMAIN selected' : outboxRows'[selected'[k]].status = "pending"
      ]_vars

\* the relay is in a cycle beside a published row and a row that was retried
C14_CycleAfterTerminal ==
    /\ rpc = "publish"
    /\ \E i \in RowIds : outboxRows[i].status = "published"
    /\ \E i \in RowIds : outboxRows[i].status = "failed"
    /\ outboxRows[Head(selected)].attempts >= 1

\* handler p waits in FOR UPDATE for a row that handler q holds
WaitsForRow(p, q) ==
    /\ pc[p] = "w_tx"
    /\ NextRow(p) # NoWallet
    /\ rowLock[NextRow(p)] = q
    /\ q # p

\* C15: there is no lock cycle: two transfers never wait for each other's
\* row (each takes the wallet locks and the row locks of its two wallets in
\* ascending order of wallet id, so A -> B and B -> A cannot).
C15_NoLockCycle ==
    \A p, q \in Procs : ~(WaitsForRow(p, q) /\ WaitsForRow(q, p))

\* a transfer from the higher to the lower wallet id is in its database
\* transaction beside a transfer the other way
C15_OppositeTransfers ==
    \E p, q \in Procs :
        /\ pc[p] = "w_tx" /\ pc[q] = "w_tx"
        /\ req[p].kind = "transfer" /\ req[q].kind = "transfer"
        /\ req[p].from = req[q].to /\ req[p].to = req[q].from
        /\ Rank[req[p].from] > Rank[req[p].to]
        /\ rowOrder(req[p]) # rowOrderAscending(req[p])

\* the wallet events of wallet w, in the order they were committed
EventsOf(w) == SelectSeq(walletEvents, LAMBDA e : e.wallet = w)

\* the signed amount of a wallet event
Delta(e) ==
    IF e.type \in {"wallet.deposit", "wallet.transfer_in"} THEN e.amount ELSE 0 - e.amount

RECURSIVE SumDeltas(_)
SumDeltas(events) ==
    IF events = <<>> THEN 0 ELSE Delta(Head(events)) + SumDeltas(Tail(events))

C17_ExecutedOnce ==
    \A r \in ScheduledRequests :
        /\ Executions(ScheduledKey(r.key)) <= 1
        /\ Cardinality(TxnOutboxRows(r.key, "transaction.completed")) <= 1

\* the dispatcher was killed during an execution and, restarted, has taken
\* up the same row again
C17_Restarted ==
    \E p, q \in Procs :
        /\ orphan[p] /\ ~orphan[q]
        /\ req[p].kind = "scheduled" /\ req[q] = req[p]
        /\ pc[q] = "w_check"

\* C18: when the dispatcher was killed after the funds of a row had moved
\* and before its status update, the next execution of the row is blocked by
\* the key scheduled-{id} and re-applies the status update: it leaves the
\* row completed.
C18_ReappliedCompleted ==
    \A p \in Procs :
        (/\ req[p].kind = "scheduled"
         /\ retry[p]
         /\ ~orphan[p]
         /\ pc[p] = "done")
        => StatusOf(RowId(p)) = "completed"

\* the dispatcher was killed after the funds moved, the row is still scheduled
C18_KilledAfterFunds ==
    \E p \in Procs :
        /\ req[p].kind = "scheduled"
        /\ orphan[p]
        /\ pc[p] = "done"
        /\ moved[p] = 1
        /\ StatusOf(RowId(p)) = "scheduled"
        /\ CheckIdempotency(req[p].key)

TerminalStatuses == {"completed", "failed", "cancelled"}

\* C19: once a transactions row has a terminal status (completed, failed,
\* cancelled) its status never changes again.
C19_TerminalStays ==
    [][ \A t \in txns :
          t.status \in TerminalStatuses => StatusIn(txns', t.key) = t.status ]_vars

\* a row is completed while another execution of it is still under way
C19_CompletedDuringExecution ==
    \E p \in Procs :
        /\ req[p].kind = "scheduled"
        /\ pc[p] \notin {"idle", "done"}
        /\ StatusOf(RowId(p)) = "completed"

C21_CreateMovesNothing ==
    [][ /\ \A r \in ScheduledRequests :
              (StatusIn(txns, r.key) = "" /\ StatusIn(txns', r.key) # "")
              => /\ StatusIn(txns', r.key) = "scheduled"
                 /\ UNCHANGED <<balance, walletEvents, walletOutbox, txnOutbox>>
        /\ balance' # balance
              => \E p \in Procs :
                    /\ pc[p] = "w_tx"
                    /\ req[p].kind = "scheduled"
                    /\ RowId(p) \in due
      ]_vars

\* a scheduled transfer was created and is not yet due: no balance has changed
C21_CreatedNotDue ==
    /\ StatusOf("sk1") = "scheduled"
    /\ "sk1" \notin due
    /\ CheckIdempotency("sk1")
    /\ cache["w1"] = balance["w1"]
    /\ balance = InitBalance
    /\ walletEvents = <<>>

\* the ledger entries of wallet w, in the order of created_at
EntriesOf(w) == SelectSeq(ledger, LAMBDA entry : entry.wallet = w)

\* C22: for every wallet, each entry after the first carries the balance of
\* the entry before it plus its amount (a credit) or minus its amount (a
\* debit), also when transactions on the same wallet are processed concurrently.
C22_RunningBalance ==
    \A w \in Wallets :
        LET rows == EntriesOf(w) IN
        \A i \in 2..Len(rows) :
            rows[i].balance =
                IF rows[i].type = "credit"
                THEN rows[i - 1].balance + rows[i].amount
                ELSE rows[i - 1].balance - rows[i].amount

\* two consumers have read the latest balance of the same wallet for two
\* different transactions and neither has written yet
C22_ConcurrentOnWallet ==
    \E c, d \in Consumers :
        /\ c # d
        /\ lpc[c] = "l_write" /\ lpc[d] = "l_write"
        /\ lev[c].transaction_id # lev[d].transaction_id
        /\ lev[c].from = lev[d].from

\* the pipeline has nothing left to do: every handler has answered, every
\* outbox row was published and consumed, every consumer is idle
Quiescent ==
    /\ \A p \in Procs : ~InFlight(p)
    /\ relayed = Len(txnOutbox)
    /\ \A c \in Consumers : lpc[c] = "idle"

\* C23: every executed money movement (a completed transactions row: a P2P
\* transfer, an item of a batch, a scheduled transfer) ends up with a debit and a credit entry in
\* the ledger: once the pipeline has nothing left to do, both are there.
C23_EveryMovementRecorded ==
    Quiescent =>
        \A t \in txns :
            t.status = "completed"
            => EntryCount(t.key, "debit") >= 1 /\ EntryCount(t.key, "credit") >= 1

\* a batch has been executed and its event consumed, beside a P2P transfer
\* that the ledger has recorded
C23_BatchConsumed ==
    /\ Quiescent
    /\ \E t \in txns : t.type = "batch" /\ t.status = "completed"
    /\ \E t \in txns : t.type = "p2p" /\ EntryCount(t.key, "debit") = 1

\* handler p answered a batch request with a failure
BatchFailed(p) ==
    /\ batchReq[p] # NoBatch
    /\ pc[p] = "done"
    /\ result[p] \notin {"ok", "validation", "duplicate"}

\* C24: after a batch has failed, and until its key is submitted again, no
\* batch_transactions row of the key persists and the key is not in the
\* key-value store; the corrected batch submitted under the same key is then
\* executed, not refused.
C24_FailedBatchRetryable ==
    \A p \in Procs :
        BatchFailed(p) =>
            /\ (\A q \in Procs : q # p /\ batchReq[q].key = batchReq[p].key => q < p)
                  => /\ \A row \in batches : row.key # batchReq[p].key
                     /\ ~CheckIdempotency(batchReq[p].key)
            /\ \A q \in Procs :
                  (/\ q > p
                   /\ batchReq[q] = CorrectedBatch
                   /\ batchReq[p].key = CorrectedBatch.key
                   /\ pc[q] = "done")
                  => result[q] = "ok"

\* the batch of key bk1 failed at its second item and the corrected batch
\* was submitted under the same key and answered
C24_Resubmitted ==
    \E p, q \in Procs :
        /\ p < q
        /\ BatchFailed(p)
        /\ batchReq[p].key = CorrectedBatch.key /\ batchReq[p] # CorrectedBatch
        /\ batchReq[q] = CorrectedBatch
        /\ pc[q] = "done"
        /\ hasSufficientBalance(balance["w1"], CalculateBatchTotal(CorrectedBatch.transfers))

\* no committed write of wallet w is still before its cache invalidation
Invalidated(w) ==
    \A p \in Procs :
        ~(pc[p] \in {"w_set", "w_inval"} /\ w \in {req[p].from, req[p].to})

\* C25: a GetWallet call that starts when every committed write of the
\* wallet has completed its cache invalidation returns the balance of the
\* wallets row, also when it is served from the cache.
C25_FreshAfterInvalidation ==
    [][ \A g \in Readers :
          (/\ gpc[g] \in {"idle", "done"}
           /\ gpc'[g] = "done"
           /\ reads' = reads + 1
           /\ Invalidated(gwallet'[g]))
          => gret'[g] = balance[gwallet'[g]] ]_vars

\* a GetWallet call read the row before a write committed and is about to
\* cache that balance after the write's invalidation
C25_ReadBeforeCommit ==
    \E g \in Readers :
        /\ gpc[g] = "g_cache"
        /\ gval[g] # balance[gwallet[g]]
        /\ cache[gwallet[g]] = NoVal
        /\ Invalidated(gwallet[g])
        /\ \E p \in Procs : pc[p] = "done" /\ moved[p] = 1

\* C26: an operation that has ended without its process stopping holds no
\* wallet lock; every lock in the key-value store was taken by an operation
\* that is still running or by one whose process stopped; and whenever
\* wallets are locked, eventually none is: every lock is released by its
\* operation or expires.
C26_LocksReleased ==
    /\ [](\A p \in Procs : (pc[p] = "done" /\ result[p] # "crashed") => held[p] = <<>>)
    /\ [](\A w \in locks :
            \E p \in Procs :
                /\ w \in SeqToSet(held[p])
                /\ InFlight(p) \/ result[p] = "crashed")
    /\ (locks # {}) ~> (locks = {})

\* a transfer that took one lock was refused the other, a deposit has ended
\* with an error, and a stopped process has left a lock behind
C26_FailurePaths ==
    \E p, q \in Procs :
        /\ pc[p] = "done" /\ result[p] = "crashed" /\ held[p] # <<>>
        /\ \E w \in SeqToSet(held[p]) : w \in locks
        /\ pc[q] = "done" /\ result[q] = "locked" /\ req[q].kind = "transfer"
        /\ req[q].from \notin locks

\* no consumer is in the middle of handling the event
Handled(id) == \A c \in Consumers : apc[c] = "idle" \/ aev[c].EventID # id

\* C27: analytics applies an event atomically: once no consumer is handling
\* it, after a success or a failure, the daily upsert, the hourly upsert,
\* the user-snapshot upserts and the processed row of the log are all
\* there or none of them is.
C27_AllOrNone ==
    \A id \in EventIds :
        Handled(id) =>
            \/ /\ applied[id].daily >= 1
               /\ applied[id].hourly >= 1
               /\ applied[id].snapshot >= 1
               /\ eventLog[id] = "processed"
            \/ /\ applied[id] = NotApplied
               /\ eventLog[id] # "processed"

\* the handling of an event failed after its daily upsert
C27_FailedMidway ==
    \E c \in Consumers :
        /\ apc[c] = "a_logfail"
        /\ applied[aev[c].EventID].daily = 1
        /\ applied[aev[c].EventID].snapshot = 0

\* C28: a delivery is skipped only when the log has a row of the event with
\* status processed: an event whose handling failed is handled again when
\* it is delivered again.
C28_SkipOnlyProcessed ==
    [][ \A c \in Consumers :
          (apc[c] = "a_check" /\ apc'[c] = "idle")
          => eventLog[aev[c].EventID] = "processed" ]_vars

\* an event whose handling failed has been delivered again
C28_FailedRedelivered ==
    \E c \in Consumers :
        /\ apc[c] = "a_check"
        /\ eventLog[aev[c].EventID] = "failed"

\* the deposits and withdrawals executed under idempotency key k
BalanceChanges(k) ==
    Cardinality({i \in DOMAIN walletEvents :
                    /\ walletEvents[i].type \in {"wallet.deposit", "wallet.withdrawal"}
                    /\ walletEvents[i].key = k})

\* C29: a deposit or withdrawal sent with the idempotency key of a completed
\* operation is rejected as a duplicate and moves nothing: however many times
\* one key is sent, the wallet balance changes once.
C29_UsedKeyChangesOnce ==
    /\ \A r \in WalletRequests : BalanceChanges(r.key) <= 1
    /\ \A p, q \in Procs :
        (/\ p < q
         /\ req[p] \in WalletRequests
         /\ req[q] = req[p]
         /\ pc[p] = "done" /\ result[p] = "ok"
         /\ pc[q] = "done")
        => (result[q] = "duplicate" /\ moved[q] = 0)

\* a deposit or withdrawal completed and was sent again with its key
C29_KeyReused ==
    \E p, q \in Procs :
        /\ p < q
        /\ req[p] \in WalletRequests
        /\ req[q] = req[p]
        /\ pc[p] = "done" /\ result[p] = "ok"
        /\ pc[q] = "done"

\* p is answering a deposit or withdrawal that succeeded
AnswersOk(p) ==
    /\ req[p] \in WalletRequests
    /\ pc[p] = "w_release"
    /\ werr[p] = ""

\* C30: the wallet a successful deposit or withdrawal returns carries the
\* balance the operation produced: the balance before it plus the deposited
\* amount, or minus the withdrawn amount.
C30_ReturnsNewBalance ==
    [][ \A p \in Procs :
          (req[p] \in WalletRequests /\ moved'[p] = moved[p] + 1)
          => /\ updatedWallet'[p] = balance'[req[p].from]
             /\ updatedWallet'[p] =
                    IF req[p].kind = "deposit"
                    THEN balance[req[p].from] + ParseAmount(req[p].amount)
                    ELSE balance[req[p].from] - ParseAmount(req[p].amount) ]_vars

\* a deposit that succeeded is being answered with the wallet it read
C30_DepositAnswered ==
    \E p \in Procs :
        /\ AnswersOk(p)
        /\ req[p].kind = "deposit"
        /\ updatedWallet[p] # NoVal

\* the wallet events of the movement that ledger entry en records: the
\* transfer_out of a debit entry, the transfer_in of a credit entry
MovementOf(en) ==
    {j \in DOMAIN walletEvents :
        /\ walletEvents[j].key = en.transaction_id
        /\ walletEvents[j].wallet = en.wallet
        /\ walletEvents[j].type =
              IF en.type = "debit" THEN "wallet.transfer_out" ELSE "wallet.transfer_in"}

\* C31: the running balance on the debit entry of a completed transfer is the
\* source wallet's balance after the transfer, and the running balance on its
\* credit entry is the destination wallet's balance after the transfer.
C31_RunningBalanceIsWalletBalance ==
    \A i \in DOMAIN ledger :
        \A j \in MovementOf(ledger[i]) :
            ledger[i].balance = walletEvents[j].after

\* a completed P2P transfer has its debit and its credit entry in the ledger
C31_TransferRecorded ==
    \E t \in txns :
        /\ t.type = "p2p" /\ t.status = "completed"
        /\ EntryCount(t.key, "debit") = 1
        /\ EntryCount(t.key, "credit") = 1
        /\ \E i \in DOMAIN ledger :
              ledger[i].transaction_id = t.key /\ MovementOf(ledger[i]) # {}

\* C32: the debit entry's running balance is max(0, from_balance - amount)
\* and the credit entry's is to_balance + amount: no ledger entry carries a
\* negative running balance.
C32_NoNegativeRunningBalance ==
    \A i \in DOMAIN ledger : ledger[i].balance >= 0

\* the ledger holds a debit entry of a wallet whose earlier running balance
\* was below the entry's amount
C32_DebitBelowAmount ==
    \E i \in DOMAIN ledger :
        /\ ledger[i].type = "debit"
        /\ \A j \in DOMAIN ledger :
              (j < i /\ ledger[j].wallet = ledger[i].wallet)
              => ledger[j].balance < ledger[i].amount

\* C33: every wallet event has balance_after = balance_before + amount when
\* it is a deposit or a transfer_in, and balance_after = balance_before -
\* amount when it is a withdrawal or a transfer_out.
C33_EventArithmetic ==
    \A i \in DOMAIN walletEvents :
        LET e == walletEvents[i] IN
        IF e.type \in {"wallet.deposit", "wallet.transfer_in"}
        THEN e.after = e.before + e.amount
        ELSE e.after = e.before - e.amount

\* a transfer and a withdrawal have written their events
C33_EventsWritten ==
    /\ \E i \in DOMAIN walletEvents : walletEvents[i].type = "wallet.transfer_out"
    /\ \E i \in DOMAIN walletEvents : walletEvents[i].type = "wallet.transfer_in"
    /\ \E i \in DOMAIN walletEvents : walletEvents[i].type = "wallet.withdrawal"

(***************************************************************************)
(* A client that sends one P2P request and sends it again, with the same   *)
(* idempotency key, after each answer.  The transaction service may fail   *)
(* between the wallet transfer and its own commit.                         *)
(***************************************************************************)
\* the client sends r: its first request, or the request it sent before
ClientSends(p, r) ==
    /\ Alone(p)
    /\ \A q \in Procs : pc[q] # "idle" => req[q] = r
    /\ P2PStart(p, r)

\* the steps the services take when nothing fails
RetrySteps ==
    \/ \E p \in Procs, r \in P2PRequests : ClientSends(p, r)
    \/ \E p \in Procs : P2PGetFrom(p)
    \/ \E p \in Procs : P2PGetTo(p)
    \/ \E p \in Procs : TransferCheck(p)
    \/ \E p \in Procs : AcquireWalletLock(p)
    \/ \E p \in Procs : WalletTx(p)
    \/ \E p \in Procs : WalletSetKey(p)
    \/ \E p \in Procs : WalletInvalidate(p)
    \/ \E p \in Procs : WalletRelease(p)
    \/ \E p \in Procs : P2PCommit(p)
    \/ \E p \in Procs : P2PSetKey(p)

\* the transaction service's database is unavailable for one commit
CommitFailsOnce(p) ==
    /\ \A q \in Procs : result[q] # "commit_failed"
    /\ P2PCommitUnavailable(p)

NextRetry ==
    \/ RetrySteps
    \/ \E p \in Procs : CommitFailsOnce(p)
    \/ \E k \in idem : KeyExpire(k)
    \/ \E w \in locks : LockExpire(w)

SpecRetry == Init /\ [][NextRetry]_vars

\* every handler runs to its answer and the client sends its request again
\* as long as the service takes requests
SpecRetryFair == SpecRetry /\ WF_vars(RetrySteps)

\* the completed transactions rows of idempotency key k
CompletedRows(k) == {t \in txns : t.key = k /\ t.status = "completed"}

\* C34: whenever the wallet service has executed the transfer of a P2P
\* request, the transaction service eventually holds exactly one completed
\* transactions row and its transaction.completed outbox row for the request,
\* also when it failed between the wallet transfer and its commit and the
\* client sends the request again with the same key.
C34_EventuallyRecorded ==
    \A r \in P2PRequests :
        (Executions(r.key) >= 1)
        ~> (/\ Cardinality(CompletedRows(r.key)) = 1
            /\ \E i \in DOMAIN txnOutbox :
                  /\ txnOutbox[i].aggregate = r.key
                  /\ txnOutbox[i].type = "transaction.completed")

\* the commit failed after the wallet transfer and the client sent the
\* request again
C34_RetriedAfterFailure ==
    \E p, q \in Procs :
        /\ p < q
        /\ pc[p] = "done" /\ result[p] = "commit_failed" /\ moved[p] > 0
        /\ req[q] = req[p]
        /\ pc[q] = "done"

(***************************************************************************)
(* The wallet service's transfer operation called directly (POST of a      *)
(* TransferRequest to Handler.Transfer), with any wallets and amount.      *)
(***************************************************************************)
NextPrimitive ==
    \/ \E p \in Procs, r \in TransferRequests \cup EdgeTransferRequests : TransferStart(p, r)
    \/ \E p \in Procs : TransferCheck(p)
    \/ \E p \in Procs : AcquireWalletLock(p)
    \/ \E p \in Procs : WalletTx(p)
    \/ \E p \in Procs : WalletSetKey(p)
    \/ \E p \in Procs : WalletInvalidate(p)
    \/ \E p \in Procs : WalletRelease(p)
    \/ \E w \in locks : LockExpire(w)

SpecPrimitive == Init /\ [][NextPrimitive]_vars

\* handler p ends the database transaction of its transfer in this step
TransferEnds(p) ==
    /\ req[p].kind = "transfer"
    /\ pc[p] = "w_tx"
    /\ pc'[p] # "w_tx"

\* C35: a transfer whose source and destination are the same wallet never
\* changes the wallet's balance: it is rejected or the balance stays.
C35_SelfTransferMovesNothing ==
    [][ \A p \in Procs :
          (TransferEnds(p) /\ req[p].from = req[p].to)
          => balance'[req[p].from] = balance[req[p].from] ]_vars

\* a transfer from a wallet to itself was answered
C35_SelfTransferAnswered ==
    \E p \in Procs :
        /\ req[p].kind = "transfer"
        /\ req[p].from = req[p].to
        /\ pc[p] = "done"

\* C36: the transfer operation moves funds only for a well-formed amount
\* above zero: a transfer with a negative, zero or malformed amount never
\* lowers the destination wallet's balance or raises the source wallet's.
C36_OnlyPositiveAmountsMove ==
    [][ \A p \in Procs :
          (/\ TransferEnds(p)
           /\ ~(SetStringOk(req[p].amount) /\ ParseAmount(req[p].amount) > 0))
          => /\ balance'[req[p].to] >= balance[req[p].to]
             /\ balance'[req[p].from] <= balance[req[p].from] ]_vars

\* transfers with a negative, a zero and a malformed amount were answered
C36_EdgeAmountsAnswered ==
    \E p, q \in Procs :
        /\ req[p].kind = "transfer" /\ req[q].kind = "transfer"
        /\ pc[p] = "done" /\ pc[q] = "done"
        /\ req[p].amount = "-1"
        /\ req[q].amount \in {"0", "x"}

\* C37: a transactions row has status failed only if no funds were moved for
\* it: a scheduled transfer whose wallet transfer succeeded is never left,
\* or later put, in status failed.
C37_FailedMovedNothing ==
    \A r \in ScheduledRequests :
        StatusOf(r.key) = "failed" => Executions(ScheduledKey(r.key)) = 0

\* an execution whose wallet transfer succeeded is ending with an error
C37_ErrorAfterTransfer ==
    \E p \in Procs :
        /\ req[p].kind = "scheduled"
        /\ ~orphan[p]
        /\ moved[p] = 1
        /\ pc[p] = "s_fail"

\* C38: when two dispatcher passes select the same due row concurrently, its
\* transfer is executed at most once and the row ends with status completed;
\* the pass that loses the race does not mark the row failed.
C38_OneExecutionRowCompleted ==
    \A p, q \in Procs :
        (/\ p # q
         /\ req[p].kind = "scheduled"
         /\ req[q] = req[p]
         /\ pc[p] = "done" /\ pc[q] = "done"
         /\ moved[p] + moved[q] >= 1)
        => /\ Executions(req[p].key) = 1
           /\ StatusOf(RowId(p)) = "completed"

\* two passes are executing the same row at the same time
C38_SameRowSelectedTwice ==
    \E p, q \in Procs :
        /\ p # q
        /\ req[p].kind = "scheduled"
        /\ req[q] = req[p]
        /\ pc[p] = "s_wallets" /\ pc[q] = "s_wallets"

\* the ledger.entry_created events the analytics service has processed
ProcessedEvents == {e \in LedgerEvents : eventLog[e.event_id] = "processed"}

\* the transactions these events are entries of
TransactionsOf(events) == {e.transaction_id : e \in events}

\* the amount of each transaction, as its entries carry it
TransactionAmount ==
    [t \in TransactionsOf(LedgerEvents) |->
        ParseAmount((CHOOSE e \in LedgerEvents : e.transaction_id = t).amount)]

\* every event was taken in once and logged as processed or not at all,
\* every transaction has all of its events processed or none, and no
\* consumer is at work
EventsSettled ==
    /\ \A c \in Consumers : apc[c] = "idle"
    /\ \A e \in LedgerEvents :
          IF e \in ProcessedEvents
          THEN applied[e.event_id].daily = 1
          ELSE applied[e.event_id].daily = 0
    /\ \A e, f \in LedgerEvents :
          e.transaction_id = f.transaction_id
          => (e \in ProcessedEvents <=> f \in ProcessedEvents)

\* C39: analytics counts each completed transaction once: when all
\* ledger.entry_created events of the transactions have been processed, the
\* day's total_transactions is the number of these transactions and its
\* total_volume the sum of their amounts, not one count per ledger entry.
C39_CountedPerTransaction ==
    EventsSettled =>
        /\ dailyMetrics.total_transactions =
              Cardinality(TransactionsOf(ProcessedEvents))
        /\ dailyMetrics.total_volume =
              SumOver(TransactionAmount, TransactionsOf(ProcessedEvents))

\* the debit event and the credit event of one transaction were processed
C39_BothEntriesProcessed ==
    /\ EventsSettled
    /\ \E e, f \in ProcessedEvents :
          /\ e.transaction_id = f.transaction_id
          /\ e.entry_type = "debit" /\ f.entry_type = "credit"

(***************************************************************************)
(* Clients that send P2P requests and batch requests to the transaction    *)
(* service, one of the P2P requests under a key of the derived form.       *)
(***************************************************************************)
\* the P2P requests and the batches the clients send
KeyedP2PRequests == DerivedKeyRequests \cup {r \in P2PRequests : r.key = "k1"}

KeyedBatchRequests == {b \in BatchRequests : b.key = "bk2"}

NextDerivedKeys ==
    \/ \E p \in Procs, r \in KeyedP2PRequests : P2PStart(p, r)
    \/ \E p \in Procs, b \in KeyedBatchRequests : BatchStart(p, b)
    \/ \E p \in Procs : P2PGetFrom(p)
    \/ \E p \in Procs : P2PGetTo(p)
    \/ \E p \in Procs : BatchGetFrom(p)
    \/ \E p \in Procs : BatchItem(p)
    \/ \E p \in Procs : TransferCheck(p)
    \/ \E p \in Procs : AcquireWalletLock(p)
    \/ \E p \in Procs : WalletTx(p)
    \/ \E p \in Procs : WalletSetKey(p)
    \/ \E p \in Procs : WalletInvalidate(p)
    \/ \E p \in Procs : WalletRelease(p)
    \/ \E p \in Procs : P2PCommit(p)
    \/ \E p \in Procs : P2PSetKey(p)
    \/ \E p \in Procs : BatchRecord(p)
    \/ \E p \in Procs : BatchCommit(p)
    \/ \E p \in Procs : BatchFail(p)
    \/ \E p \in Procs : BatchSetKey(p)

SpecDerivedKeys == Init /\ [][NextDerivedKeys]_vars

\* the logical operation a handler works for: the kind of the client's
\* request and the idempotency key the client supplied with it
OperationOf(p) ==
    IF batchReq[p] # NoBatch THEN <<"batch", batchReq[p].key>>
    ELSE <<req[p].kind, req[p].key>>

\* this step rejects the work of handler p as a duplicate: the transaction
\* service's own check at the start of a request, or the wallet service's
\* check at the start of a transfer
RejectedAsDuplicate(p) ==
    \/ pc[p] = "idle" /\ pc'[p] = "done" /\ result'[p] = "duplicate"
    \/ pc[p] = "w_check" /\ pc'[p] \notin {"w_check", "w_lock"}
          /\ req[p].amount # "" /\ req[p].key # ""

\* C40: derived idempotency keys do not collide with the keys of other
\* logical operations: when a request or a batch item is rejected as a
\* duplicate, another handler has worked for the same logical operation
\* (the same kind of request under the same client key), never only for an
\* unrelated one.
C40_DuplicateOfSameOperation ==
    [][\A p \in Procs :
          RejectedAsDuplicate(p)
          => \E q \in Procs \ {p} : pc[q] # "idle" /\ OperationOf(q) = (OperationOf(p))']_vars

\* a P2P request under the key bk2-0 and the batch of key bk2 were both
\* answered, and they were the only requests
C40_DerivedKeyMet ==
    \E p, q \in Procs :
        /\ pc[p] = "done" /\ pc[q] = "done"
        /\ batchReq[p] = NoBatch /\ req[p] \in DerivedKeyRequests
        /\ batchReq[q] \in KeyedBatchRequests
        /\ req[p].key = SubKey(batchReq[q].key, 0)

====
